---- MODULE Spec2Model ----
(***************************************************************************)
(* A model of nanorange: the detection idiom, the concept predicates, the  *)
(* begin/end customisation point objects, the derived type aliases and the *)
(* constrained algorithm layer.                                            *)
(*                                                                         *)
(* Everything the library decides about a type is decided at compile time, *)
(* so a "program" here is a translation unit that names a type (or calls   *)
(* an algorithm on some ranges) and the state records what the library     *)
(* answers for it:                                                         *)
(*   arg  - the type, or the call arguments, under examination             *)
(*   call - the library entity last instantiated or invoked on arg         *)
(*   ret  - what that instantiation or call produced                       *)
(***************************************************************************)
EXTENDS Integers, Sequences, FiniteSets, TLC

VARIABLES arg, call, ret

vars == <<arg, call, ret>>

(***************************************************************************)
(* Bounds of the model.                                                    *)
(***************************************************************************)
\* largest extent N of a built-in array T[N]
MaxExtent == 2
\* longest sequence held by a range handed to an algorithm
MaxLen == 3
\* element values are 1..MaxVal
MaxVal == 2

\* how many use sites of the detection aliases a translation unit has
MaxUses == 3

\* the extent of each int array handed to swap_ranges, transform or
\* inner_product
MaxPairLen == 3
\* the elements of those arrays are 1..MaxPairVal
MaxPairVal == 2

\* how many characters a stream buffer holds before sputc returns eof
\* the arrays handed to views::counted have MaxCountedLen elements, each in
\* 0..MaxCountedVal
MaxCountedLen == 4

MaxCountedVal == 1

\* the ranges handed to view::common have up to MaxViewLen elements
MaxViewLen == 3

MaxCapacity == 2
\* how many operations a program applies to an ostreambuf_iterator
MaxOps == 4

\* largest extent of an int array handed to sort
MaxSortLen == 5
\* largest extent of each int array handed to merge
MaxMergeLen == 3
\* largest extent of an int array handed to accumulate or reverse_copy
MaxSeqLen == 4
\* the elements of those arrays are 1..MaxSeqVal
MaxSeqVal == 5

(***************************************************************************)
(* Element types: what a dereference, a nested value_type or a pointee can *)
(* be.  b is the unqualified type, c its const qualification, r its        *)
(* reference kind ("" for none, "&" for lvalue reference, "&&" for rvalue  *)
(* reference).                                                             *)
(***************************************************************************)
ElemT(b, c, r) == [b |-> b, c |-> c, r |-> r]

\* detail::nonesuch: what detected_t yields when detection fails
nonesuch == ElemT("nonesuch", FALSE, "")

\* a hard error: the instantiation is ill-formed outside the immediate context
ill_formed == ElemT("ill-formed", FALSE, "")

VoidT == ElemT("void", FALSE, "")

\* std::is_object: not a reference, not void, not a function type
is_object(t) == t.r = "" /\ t.b \notin {"void", "function", "nonesuch", "ill-formed"}

remove_cv_t(t) == [t EXCEPT !.c = IF t.r = "" THEN FALSE ELSE t.c]

remove_reference_t(t) == [t EXCEPT !.r = ""]

remove_cvref_t(t) == remove_cv_t(remove_reference_t(t))

(***************************************************************************)
(* Iterator-like types: the types the concept predicates classify.         *)
(*   k       "ptr" (pointer), "arr" (built-in array) or "named" (any other *)
(*           type: a class, int, void, nonesuch)                           *)
(*   id      the name of a named type                                      *)
(*   c, r    top-level const and reference kind                            *)
(*   pointee the pointee of a pointer, the element of an array             *)
(*   ext     the extent of an array                                        *)
(*   tr      for a named type, which expressions are well-formed on it     *)
(***************************************************************************)
NoTraits ==
    [copyable |-> FALSE, defcon |-> FALSE, eq |-> FALSE, eqWith |-> {},
     diff |-> "none", preinc |-> FALSE, postinc |-> "none",
     deref |-> nonesuch, value_type |-> nonesuch, element_type |-> nonesuch,
     cat |-> "none", dec |-> FALSE, ordered |-> FALSE, sized |-> FALSE,
     raops |-> FALSE]

Named(id, tr) ==
    [k |-> "named", id |-> id, c |-> FALSE, r |-> "", pointee |-> nonesuch,
     ext |-> 0, tr |-> tr]

PointerTo(pointee) ==
    [k |-> "ptr", id |-> "", c |-> FALSE, r |-> "", pointee |-> pointee,
     ext |-> 0, tr |-> NoTraits]

ArrayOf(elem, n) ==
    [k |-> "arr", id |-> "", c |-> FALSE, r |-> "", pointee |-> elem,
     ext |-> n, tr |-> NoTraits]

Const(I) == IF I.r = "" /\ I.k # "arr" THEN [I EXCEPT !.c = TRUE]
            ELSE IF I.k = "arr" THEN [I EXCEPT !.pointee.c = TRUE]
            ELSE I

LRef(I) == [I EXCEPT !.r = "&"]

\* the type detected_t names when detection fails, as an iterator-like type
NonesuchType == Named("nonesuch", NoTraits)

\* what a pointer supports: everything, when the pointee is an object type
PointerTraits(pointee) ==
    [copyable |-> TRUE, defcon |-> TRUE, eq |-> TRUE, eqWith |-> {},
     diff |-> IF is_object(pointee) THEN "signed" ELSE "none",
     preinc |-> is_object(pointee),
     postinc |-> IF is_object(pointee) THEN "self" ELSE "none",
     deref |-> IF pointee.b = "void" THEN nonesuch
               ELSE [pointee EXCEPT !.r = "&"],
     value_type |-> nonesuch, element_type |-> nonesuch,
     cat |-> IF is_object(pointee) THEN "random_access" ELSE "none",
     dec |-> is_object(pointee), ordered |-> TRUE,
     sized |-> is_object(pointee), raops |-> is_object(pointee)]

\* a built-in array is neither copy-constructible nor assignable
ArrayTraits == [NoTraits EXCEPT !.defcon = TRUE]

Tr(I) == CASE I.k = "ptr" -> PointerTraits(I.pointee)
           [] I.k = "arr" -> ArrayTraits
           [] OTHER -> I.tr

\* std::decay_t: drop the reference, turn an array into a pointer to its
\* element, drop top-level cv
decay_t(I) ==
    IF I.k = "arr" THEN PointerTo(I.pointee)
    ELSE [I EXCEPT !.r = "", !.c = FALSE]

(***************************************************************************)
(* The detection idiom.  Instantiating Op<Args...> either is well-formed   *)
(* and names a type, or is a substitution failure; a failure outside the   *)
(* immediate context is a hard error, which no detector can absorb.        *)
(***************************************************************************)
WellFormed(t) == [ok |-> TRUE, hard |-> FALSE, type |-> t]

SubstFailure == [ok |-> FALSE, hard |-> FALSE, type |-> NonesuchType]

\* the same two outcomes for an Op that names an element type
WellFormedElem(t) == [ok |-> TRUE, hard |-> FALSE, type |-> t]

NoElem == [ok |-> FALSE, hard |-> FALSE, type |-> nonesuch]

HardErrorElem == [ok |-> FALSE, hard |-> TRUE, type |-> ill_formed]

\* a detector whose partial specialisation also names Default
detector_AlwaysDefault(Default, sub) == [value_t |-> sub.ok, type |-> Default]

\* the primary template and its partial specialisation on void_t<Op<Args...>>
detector(Default, sub) ==
    [value_t |-> sub.ok, type |-> IF sub.ok THEN sub.type ELSE Default]

is_detected(sub) == detector(NonesuchType, sub).value_t

detected_t(sub) == detector(NonesuchType, sub).type

detected_or_t(Default, sub) == detector(Default, sub).type

Same(T, U) == T = U

is_detected_exact(Expected, sub) == Same(Expected, detected_t(sub))

(***************************************************************************)
(* Iterator category tags.  "custom_forward" is a user tag that derives    *)
(* from std::input_iterator_tag and converts to std::forward_iterator_tag  *)
(* without deriving from it.                                               *)
(***************************************************************************)
Categories ==
    {"none", "output", "input", "custom_forward", "forward", "bidirectional",
     "random_access"}

TagBases(cat) ==
    CASE cat = "output" -> {"output"}
      [] cat = "input" -> {"input"}
      [] cat = "custom_forward" -> {"input"}
      [] cat = "forward" -> {"input", "forward"}
      [] cat = "bidirectional" -> {"input", "forward", "bidirectional"}
      [] cat = "random_access" ->
             {"input", "forward", "bidirectional", "random_access"}
      [] OTHER -> {}

\* DerivedFrom<detected_t<iterator_category_t, I>, Tag>
DerivedFrom(cat, tag) == tag \in TagBases(cat)

\* ConvertibleTo<detected_t<iterator_category_t, I>, Tag>
ConvertibleTo(cat, tag) ==
    tag \in TagBases(cat) \/ (cat = "custom_forward" /\ tag = "forward")

\* std::iterator_traits<T>::iterator_category, nonesuch ("none") if absent
iterator_category_t(I) == IF I.r = "" THEN Tr(I).cat ELSE "none"

(***************************************************************************)
(* Object concepts.                                                        *)
(***************************************************************************)
\* Copyable: CopyConstructible, Movable (an object type), Assignable<T&, ..>
Copyable(I) == I.r = "" /\ ~I.c /\ Tr(I).copyable

DefaultConstructible(I) == I.r = "" /\ Tr(I).defcon

Semiregular(I) == Copyable(I) /\ DefaultConstructible(I)

\* t == u, t != u, u == t, u != t on const lvalues, each a Boolean
WeaklyEqualityComparableWith(T, U) ==
    IF decay_t(T) = decay_t(U) THEN Tr(T).eq
    ELSE IF T.k = "ptr" /\ U.k = "ptr"
         THEN remove_cv_t(T.pointee) = remove_cv_t(U.pointee)
    ELSE /\ T.k = "named" /\ U.k = "named"
         /\ U.id \in Tr(T).eqWith
         /\ T.id \in Tr(U).eqWith

EqualityComparable(I) == WeaklyEqualityComparableWith(I, I)

\* detail::StrictTotallyOrdered_::requires_
StrictTotallyOrdered_(I) == Tr(I).ordered

StrictTotallyOrdered(I) == EqualityComparable(I) /\ StrictTotallyOrdered_(I)

Regular(I) == Semiregular(I) /\ EqualityComparable(I)

(***************************************************************************)
(* value_type, difference_type, reference_t.                               *)
(***************************************************************************)
\* the partial specialisations of value_type that match I
value_type_specs(I) ==
    {s \in {"pointer", "array", "const", "member_value_type",
            "member_element_type"} :
        CASE s = "pointer" -> I.k = "ptr" /\ ~I.c /\ I.r = ""
          [] s = "array" -> I.k = "arr" /\ I.r = ""
          [] s = "const" ->
                 I.r = "" /\ (I.c \/ (I.k = "arr" /\ I.pointee.c))
          [] s = "member_value_type" ->
                 I.k = "named" /\ I.r = "" /\ I.tr.value_type # nonesuch
          [] s = "member_element_type" ->
                 I.k = "named" /\ I.r = "" /\ I.tr.element_type # nonesuch}

\* std::enable_if<std::is_object<T>::value, U>
enable_if_object(T, U) == IF is_object(T) THEN WellFormedElem(U) ELSE NoElem

\* value_type<T*> that keeps the cv-qualification of T
value_type_pointer_KeepCv(T) == enable_if_object(T, T)

\* value_type<T*> : std::enable_if<is_object<T>, std::remove_cv_t<T>>
value_type_pointer(T) == enable_if_object(T, remove_cv_t(T))

\* value_type<I> once no specialisation that delegates to decay_t<I> matches
value_type_decayed(I) ==
    LET specs == value_type_specs(I) IN
    IF "pointer" \in specs
        THEN value_type_pointer(I.pointee)
    ELSE IF {"member_value_type", "member_element_type"} \subseteq specs
        THEN HardErrorElem
    ELSE IF "member_value_type" \in specs
        THEN enable_if_object(I.tr.value_type, I.tr.value_type)
    ELSE IF "member_element_type" \in specs
        THEN enable_if_object(I.tr.element_type,
                              remove_cv_t(I.tr.element_type))
    ELSE NoElem

\* value_type<I>: value_type<const I> and the array specialisation are more
\* specialised than the others and both inherit from value_type<decay_t<I>>
value_type(I) ==
    IF value_type_specs(I) \cap {"const", "array"} # {}
        THEN value_type_decayed(decay_t(I))
    ELSE value_type_decayed(I)

\* value_type_t<I> = typename value_type<I>::type
value_type_t(I) == value_type(I).type

\* reference_t<I> = decltype(*std::declval<I&>())
reference_sub(I) ==
    IF Tr(I).deref = nonesuch THEN NoElem ELSE WellFormedElem(Tr(I).deref)

reference_t(I) == reference_sub(I).type

\* iter_move(e) -> decltype(std::move(*e)): ill-formed when *e is void
rvalue_reference_sub(I) ==
    IF ~reference_sub(I).ok \/ reference_t(I).b = "void" THEN NoElem
    ELSE WellFormedElem([reference_t(I) EXCEPT !.r = "&&"])

\* difference_type<I>: "signed" / "unsigned" is the signedness of the
\* nested or deduced type, "none" says there is no ::type
difference_type_t(I) == IF I.r = "" THEN Tr(I).diff ELSE "none"

SignedIntegral(d) == d = "signed"

Readable(I) ==
    /\ value_type(I).ok
    /\ reference_sub(I).ok
    /\ rvalue_reference_sub(I).ok

(***************************************************************************)
(* The iterator concepts.                                                  *)
(***************************************************************************)
\* detail::WeaklyIncrementable_::requires_(I i)
WeaklyIncrementable_(I) ==
    /\ I.r = "" /\ ~I.c
    /\ difference_type_t(I) # "none"
    /\ SignedIntegral(difference_type_t(I))
    /\ Tr(I).preinc
    /\ Tr(I).postinc # "none"

WeaklyIncrementable(I) == Semiregular(I) /\ WeaklyIncrementable_(I)

\* detail::Incrementable_::requires_: same_rv<I>(i++)
Incrementable_(I) == I.r = "" /\ ~I.c /\ Tr(I).postinc = "self"

Incrementable(I) ==
    Regular(I) /\ WeaklyIncrementable(I) /\ Incrementable_(I)

\* detail::Iterator_::requires_: not_void(*i)
Iterator_(I) == reference_sub(I).ok /\ reference_t(I).b # "void"

\* is_detected_v<legacy_iterator_traits, I>: naming a specialisation of a
\* class template instantiates nothing, so this is well-formed for every I
legacy_iterator_traits_detected(I) == TRUE

Iterator(I) ==
    /\ Iterator_(I)
    /\ WeaklyIncrementable(I)
    /\ legacy_iterator_traits_detected(I)

Sentinel(S, I) ==
    /\ Semiregular(S)
    /\ Iterator(I)
    /\ WeaklyEqualityComparableWith(S, I)
    /\ Same(S, I)

\* detail::SizedSentinel_::requires_ (disable_sized_sentinel is false)
SizedSentinel_(S, I) == Same(S, I) /\ Tr(I).sized

SizedSentinel(S, I) == Sentinel(S, I) /\ SizedSentinel_(S, I)

InputIterator(I) ==
    /\ Iterator(I)
    /\ Readable(I)
    /\ DerivedFrom(iterator_category_t(I), "input")

ForwardIterator(I) ==
    /\ InputIterator(I)
    /\ ConvertibleTo(iterator_category_t(I), "forward")
    /\ Incrementable(I)
    /\ Sentinel(I, I)

\* detail::BidirectionalIterator_::requires_
BidirectionalIterator_(I) == I.r = "" /\ ~I.c /\ Tr(I).dec

\* BidirectionalIterator written without its ForwardIterator<I> conjunct
BidirectionalIterator_NoForward(I) ==
    /\ DerivedFrom(iterator_category_t(I), "bidirectional")
    /\ BidirectionalIterator_(I)

BidirectionalIterator(I) ==
    /\ ForwardIterator(I)
    /\ DerivedFrom(iterator_category_t(I), "bidirectional")
    /\ BidirectionalIterator_(I)

\* detail::RandomAccessIterator_::requires_
RandomAccessIterator_(I) == I.r = "" /\ ~I.c /\ Tr(I).raops

RandomAccessIterator(I) ==
    /\ BidirectionalIterator(I)
    /\ DerivedFrom(iterator_category_t(I), "random_access")
    /\ StrictTotallyOrdered(I)
    /\ SizedSentinel(I, I)
    /\ RandomAccessIterator_(I)


(***************************************************************************)
(* The translation unit.  It starts by naming a type (call = "declare");   *)
(* each action instantiates one library entity on that type.               *)
(***************************************************************************)
NoRet == [none |-> TRUE]

IntT == ElemT("int", FALSE, "")

\* a class on which every expression the iterator concepts ask for is
\* well-formed
FullTraits ==
    [copyable |-> TRUE, defcon |-> TRUE, eq |-> TRUE, eqWith |-> {},
     diff |-> "signed", preinc |-> TRUE, postinc |-> "self",
     deref |-> ElemT("int", FALSE, "&"), value_type |-> IntT,
     element_type |-> nonesuch, cat |-> "random_access", dec |-> TRUE,
     ordered |-> TRUE, sized |-> TRUE, raops |-> TRUE]

(***************************************************************************)
(* Common algorithm requirements.  Element types are compared, constructed *)
(* and assigned as int is; a comparator is std::less<> or a copyable type  *)
(* that is not callable.                                                   *)
(***************************************************************************)
\* std::is_assignable<L, R>: L must be a non-const lvalue reference to an
\* object type (a scalar that is not a reference cannot be assigned to)
Assignable(L, R) ==
    /\ L.r = "&" /\ ~L.c /\ is_object(remove_reference_t(L))
    /\ remove_cvref_t(R) = remove_cvref_t(L)

\* Destructible<V> && std::is_constructible<V, R>
Constructible(V, R) == is_object(V) /\ remove_cvref_t(R) = remove_cv_t(V)

\* is_object, MoveConstructible, Assignable<V&, V>, Swappable
Movable(V) == is_object(V) /\ ~V.c

\* detail::Writable_::requires_: *o = t
Writable(Out, T) == Assignable(Tr(Out).deref, T)

\* detail::OutputIterator_::requires_: *i++ = t
OutputIterator_(I, T) == Tr(I).postinc = "self" /\ Writable(I, T)

OutputIterator(I, T) == Iterator(I) /\ Writable(I, T) /\ OutputIterator_(I, T)

Comparators == {"std::less<>", "not_callable"}

\* Predicate<F&, T, U>: f(t, u) is well-formed and converts to bool
Predicate(F, T, U) ==
    /\ F = "std::less<>"
    /\ remove_cvref_t(T) = IntT
    /\ remove_cvref_t(U) = IntT

Relation(R, T, U) ==
    /\ Predicate(R, T, T)
    /\ Predicate(R, U, U)
    /\ Predicate(R, T, U)
    /\ Predicate(R, U, T)

StrictWeakOrder(R, T, U) == Relation(R, T, U)

\* value_type_t<I>&
value_type_ref(I) == [value_type_t(I) EXCEPT !.r = "&"]

IndirectStrictWeakOrder(F, I1, I2) ==
    /\ Readable(I1) /\ Readable(I2)
    /\ StrictWeakOrder(F, value_type_ref(I1), value_type_ref(I2))
    /\ StrictWeakOrder(F, value_type_ref(I1), reference_t(I2))
    /\ StrictWeakOrder(F, reference_t(I1), value_type_ref(I2))
    /\ StrictWeakOrder(F, reference_t(I1), reference_t(I2))

IndirectlyMovable(In, Out) ==
    Readable(In) /\ Writable(Out, rvalue_reference_sub(In).type)

IndirectlyMovableStorable(In, Out) ==
    /\ IndirectlyMovable(In, Out)
    /\ Writable(Out, value_type_t(In))
    /\ Movable(value_type_t(In))
    /\ Constructible(value_type_t(In), rvalue_reference_sub(In).type)
    /\ Assignable(value_type_ref(In), rvalue_reference_sub(In).type)

IndirectlyCopyable(In, Out) == Readable(In) /\ Writable(Out, reference_t(In))

IndirectlySwappable(I1, I2) == Readable(I1) /\ Readable(I2)

Permutable(I) ==
    /\ ForwardIterator(I)
    /\ IndirectlyMovableStorable(I, I)
    /\ IndirectlySwappable(I, I)

Mergeable(I1, I2, Out, R) ==
    /\ InputIterator(I1)
    /\ InputIterator(I2)
    /\ WeaklyIncrementable(Out)
    /\ IndirectlyCopyable(I1, Out)
    /\ IndirectlyCopyable(I2, Out)
    /\ IndirectStrictWeakOrder(R, I1, I2)

\* Sortable without its Permutable conjunct
Sortable_OrderOnly(I, R) == IndirectStrictWeakOrder(R, I, I)

Sortable(I, R) == Permutable(I) /\ IndirectStrictWeakOrder(R, I, I)

\* REQUIRES(RandomAccessIterator<Iter> && Sortable<Iter, Comp>) of sort
sort_requires(Iter, Comp) == RandomAccessIterator(Iter) /\ Sortable(Iter, Comp)

\* every combination of well-formed expressions a class type can offer
TraitSpace ==
    [copyable : BOOLEAN, defcon : BOOLEAN, eq : BOOLEAN, eqWith : {{}},
     diff : {"none", "signed", "unsigned"}, preinc : BOOLEAN,
     postinc : {"none", "other", "self"},
     deref : {nonesuch, VoidT, ElemT("int", FALSE, "&")},
     value_type : {nonesuch, IntT}, element_type : {nonesuch},
     cat : Categories, dec : BOOLEAN, ordered : BOOLEAN, sized : BOOLEAN,
     raops : BOOLEAN]

Pointees ==
    {IntT, ElemT("int", TRUE, ""), VoidT, ElemT("function", FALSE, "")}

IteratorTypes ==
    {Named("I", tr) : tr \in TraitSpace} \cup {PointerTo(p) : p \in Pointees}

InitConcepts == arg \in IteratorTypes /\ call = "declare" /\ ret = NoRet

\* evaluate every iterator concept on the declared type
ClassifyIterator ==
    /\ call = "declare"
    /\ arg \in IteratorTypes
    /\ call' = "iterator_concepts"
    /\ ret' = [WeaklyIncrementable |-> WeaklyIncrementable(arg),
               Incrementable |-> Incrementable(arg),
               Iterator |-> Iterator(arg),
               InputIterator |-> InputIterator(arg),
               ForwardIterator |-> ForwardIterator(arg),
               BidirectionalIterator |-> BidirectionalIterator(arg),
               RandomAccessIterator |-> RandomAccessIterator(arg)]
    /\ UNCHANGED arg

\* evaluate the common algorithm requirements on the declared type, with a
\* comparator, and the constraint of sort(first, last, comp)
ClassifyRequirements ==
    /\ call = "declare"
    /\ arg \in IteratorTypes
    /\ call' = "requirements"
    /\ \E Comp \in Comparators :
          ret' = [Comp |-> Comp,
                  ForwardIterator |-> ForwardIterator(arg),
                  IndirectlyMovableStorable |->
                      IndirectlyMovableStorable(arg, arg),
                  IndirectlySwappable |-> IndirectlySwappable(arg, arg),
                  IndirectStrictWeakOrder |->
                      IndirectStrictWeakOrder(Comp, arg, arg),
                  IndirectlyCopyable |-> IndirectlyCopyable(arg, arg),
                  Permutable |-> Permutable(arg),
                  Mergeable |-> Mergeable(arg, arg, arg, Comp),
                  Sortable |-> Sortable(arg, Comp),
                  sort |-> sort_requires(arg, Comp)]
    /\ UNCHANGED arg

NextConcepts == ClassifyIterator \/ ClassifyRequirements

SpecConcepts == InitConcepts /\ [][NextConcepts]_vars


(***************************************************************************)
(* C6.  Hierarchy monotonicity: for every type I, RandomAccessIterator<I>  *)
(* implies BidirectionalIterator<I>, which implies ForwardIterator<I>,     *)
(* which implies InputIterator<I>, which implies Iterator<I>, which        *)
(* implies WeaklyIncrementable<I>.                                         *)
(***************************************************************************)
C6_HierarchyMonotone ==
    call = "iterator_concepts" =>
        /\ ret.RandomAccessIterator => ret.BidirectionalIterator
        /\ ret.BidirectionalIterator => ret.ForwardIterator
        /\ ret.ForwardIterator => ret.InputIterator
        /\ ret.InputIterator => ret.Iterator
        /\ ret.Iterator => ret.WeaklyIncrementable

\* a class type (not a pointer) that reaches the top of the hierarchy
C6_Witness ==
    /\ call = "iterator_concepts"
    /\ arg.k = "named"
    /\ ret.RandomAccessIterator
    /\ ret.WeaklyIncrementable


TypeNamed(n) ==
    CASE n = "ItA"  -> Named("ItA", [FullTraits EXCEPT !.eqWith = {"Sent"}])
      [] n = "ItB"  -> Named("ItB", FullTraits)
      [] n = "ItA&" -> LRef(Named("ItA", [FullTraits EXCEPT !.eqWith = {"Sent"}]))
      [] n = "Sent" -> Named("Sent", [NoTraits EXCEPT !.copyable = TRUE,
                                      !.defcon = TRUE, !.eq = TRUE,
                                      !.eqWith = {"ItA"}])
      [] n = "int"  -> Named("int", [NoTraits EXCEPT !.copyable = TRUE,
                                     !.defcon = TRUE, !.eq = TRUE,
                                     !.diff = "signed", !.preinc = TRUE,
                                     !.postinc = "self", !.ordered = TRUE])
      [] OTHER      -> NonesuchType

Returns(n) == IF n = "absent" THEN SubstFailure ELSE WellFormed(TypeNamed(n))

ClassRange(c, mb, mbc, fb, fbc, me, mec, fe, fec) ==
    [k |-> "class", c |-> c, elem |-> nonesuch, ext |-> 0,
     mb |-> mb, mbc |-> mbc, fb |-> fb, fbc |-> fbc,
     me |-> me, mec |-> mec, fe |-> fe, fec |-> fec]

\* elem[n]; adl says the element type's namespace has begin / end over arrays
ArrayRange(c, elem, n, adl) ==
    [k |-> "arr", c |-> c, elem |-> elem, ext |-> n,
     mb |-> "absent", mbc |-> "absent",
     fb |-> IF adl THEN "elem*" ELSE "absent",
     fbc |-> IF adl THEN "elem*" ELSE "absent",
     me |-> "absent", mec |-> "absent",
     fe |-> IF adl THEN "elem*" ELSE "absent",
     fec |-> IF adl THEN "elem*" ELSE "absent"]

is_array(T) == T.k = "arr"

AddConst(T) == [T EXCEPT !.c = TRUE]

RemoveConst(T) == [T EXCEPT !.c = FALSE]

\* the element type of an array as seen through T: const T[N] has const elements
ElemOf(T) == [T.elem EXCEPT !.c = T.c]

\* the type of (t) + k for an array t
ElemPointer(T) == PointerTo(ElemOf(T))

\* a pointer value: which array object and which element
PtrValue(T, idx) == [into |-> RemoveConst(T), idx |-> idx]

NullPtr == [into |-> nonesuch, idx |-> 0 - 1]

\* std::declval<T&>().begin(): overload resolution between the member's
\* const and non-const overloads on the object's constness
MemberFn(T, nonconst, const) ==
    IF is_array(T) THEN "absent"
    ELSE IF ~T.c /\ nonconst # "absent" THEN nonconst
    ELSE const

\* which of the two member overloads that is
MemberOverload(T, nonconst) ==
    IF ~T.c /\ nonconst # "absent" THEN "nonconst" ELSE "const"

\* begin(std::declval<T&>()) by unqualified lookup: the poison pill
\* begin(T&) = delete is an exact match for every lvalue, so a function
\* found by argument-dependent lookup is selected only if it binds the
\* argument at least as well
FreeFn(T, nonconst, const) == IF T.c THEN const ELSE nonconst

ReturnsFor(T, n) ==
    IF n = "elem*" THEN WellFormed(ElemPointer(T)) ELSE Returns(n)

\* detail::decay_copy: a prvalue of the decayed type
decay_copy(sub) ==
    IF sub.ok THEN WellFormed(decay_t(sub.type)) ELSE SubstFailure


(***************************************************************************)
(* What a call of a customisation point object resolves to.                *)
(*   ok          the call expression is well-formed                        *)
(*   hard        the call is ill-formed outside the immediate context      *)
(*   path        the overload that does the work: "array", "member",       *)
(*               "free"; "none" when no overload is viable, "ambiguous"    *)
(*               when no viable overload is better than the others         *)
(*   deprecated  the overload marked NANORANGE_DEPRECATED_FOR was selected *)
(*   via         which overload ("nonconst" / "const") of the range type's *)
(*               member or free function is invoked                        *)
(*   raw         the type that function returns, type the type the call    *)
(*               returns, value the pointer an array overload returns      *)
(***************************************************************************)
NotCallable ==
    [ok |-> FALSE, hard |-> FALSE, path |-> "none", deprecated |-> FALSE,
     via |-> "none", raw |-> NonesuchType, type |-> NonesuchType,
     value |-> NullPtr]

Resolved(path, via, sub, value) ==
    [ok |-> TRUE, hard |-> FALSE, path |-> path, deprecated |-> FALSE,
     via |-> via, raw |-> sub.type, type |-> decay_copy(sub).type,
     value |-> value]

\* a T& parameter binds an lvalue, and (with T deduced const) a const rvalue
BindsLvalueRef(T, v) == v = "lvalue" \/ T.c

\* overload resolution over a set of viable operator() templates: binding
\* an rvalue to const T&& is the better conversion; T (&)[N] is more
\* specialised than T&; two viable T& overloads are ambiguous
best_viable_PreferFree(V) ==
    IF "deprecated" \in V THEN "deprecated"
    ELSE IF "free" \in V THEN "free"
    ELSE IF "array" \in V THEN "array"
    ELSE IF V = {} THEN "none"
    ELSE IF Cardinality(V) = 1 THEN CHOOSE o \in V : TRUE
    ELSE "ambiguous"

best_viable(V) ==
    IF "deprecated" \in V THEN "deprecated"
    ELSE IF "array" \in V THEN "array"
    ELSE IF V = {} THEN "none"
    ELSE IF Cardinality(V) = 1 THEN CHOOSE o \in V : TRUE
    ELSE "ambiguous"

(***************************************************************************)
(* namespace detail::begin_                                                *)
(***************************************************************************)
member_begin_t(T) == ReturnsFor(T, MemberFn(T, T.mb, T.mbc))

\* has_member_begin_v written as mere detection of t.begin()
has_member_begin_v_Detected(T) == is_detected(member_begin_t(T))

has_member_begin_v(T) == Iterator(detected_t(member_begin_t(T)))

nonmember_begin_t(T) == ReturnsFor(T, FreeFn(T, T.fb, T.fbc))

has_nonmember_begin_v(T) == Iterator(detected_t(nonmember_begin_t(T)))

\* operator()(T (&t)[N])
begin_array_viable(T) == is_array(T)

\* operator()(T& t), REQUIRES(has_member_begin_v<T>)
begin_member_viable(T) == has_member_begin_v(T)

\* the free-function overload without the !has_member_begin_v<T> conjunct
begin_free_viable_NoMemberCheck(T) == has_nonmember_begin_v(T)

\* operator()(T& t), REQUIRES(has_nonmember_begin_v<T> && !has_member_begin_v<T>)
begin_free_viable(T) == has_nonmember_begin_v(T) /\ ~has_member_begin_v(T)

\* the deprecated overload constrained on T instead of const T
begin_rvalue_viable_NonConst(T) ==
    /\ ~is_array(T)
    /\ (has_member_begin_v(T) \/ has_nonmember_begin_v(T))

\* operator()(const T&& t), REQUIRES(!is_array<T> &&
\*     (has_member_begin_v<const T> || has_nonmember_begin_v<const T>))
begin_rvalue_viable(T) ==
    /\ ~is_array(T)
    /\ (has_member_begin_v(AddConst(T)) \/ has_nonmember_begin_v(AddConst(T)))

\* the overloads taking an lvalue reference that are viable for T
begin_ref_overloads(T) ==
    {o \in {"array", "member", "free"} :
        \/ o = "array" /\ begin_array_viable(T)
        \/ o = "member" /\ begin_member_viable(T)
        \/ o = "free" /\ begin_free_viable(T)}

\* the body of the overload that overload resolution selected
begin_result(T, sel) ==
    CASE sel = "array" ->
            Resolved("array", "none", WellFormed(ElemPointer(T)), PtrValue(T, 0))
      [] sel = "member" ->
            Resolved("member", MemberOverload(T, T.mb), member_begin_t(T), NullPtr)
      [] sel = "free" ->
            Resolved("free", FreeFn(T, "nonconst", "const"), nonmember_begin_t(T),
                     NullPtr)
      [] OTHER -> [NotCallable EXCEPT !.path = sel]

\* begin_cpo{}(t) for t bound by lvalue reference to T
begin_ref(T) == begin_result(T, best_viable(begin_ref_overloads(T)))

\* the overloads viable for an argument of type T and value category v
begin_overloads(T, v) ==
    (IF BindsLvalueRef(T, v) THEN begin_ref_overloads(T) ELSE {})
    \cup (IF v = "rvalue" /\ begin_rvalue_viable(RemoveConst(T))
          THEN {"deprecated"} ELSE {})

\* the deprecated overload returns what its call on the const lvalue
\* returns; that call being ill-formed is an error in the function body
Deprecated(inner) ==
    IF inner.ok THEN [inner EXCEPT !.deprecated = TRUE]
    ELSE [NotCallable EXCEPT !.hard = TRUE, !.deprecated = TRUE]

begin_dispatch(T, sel) ==
    IF sel = "deprecated" THEN Deprecated(begin_ref(AddConst(T)))
    ELSE begin_result(T, sel)

\* begin_cpo::operator() on an argument of type T and value category v
begin_cpo(T, v) == begin_dispatch(T, best_viable(begin_overloads(T, v)))

\* decltype of a call expression, as an operand of the detection idiom
decltype(res) == IF res.ok THEN WellFormed(res.type) ELSE SubstFailure

(***************************************************************************)
(* namespace detail::end_                                                  *)
(***************************************************************************)
\* begin_t<T> = decltype(nanorange::begin(std::declval<T&>()))
begin_t(T) == decltype(begin_cpo(T, "lvalue"))

member_end_t(T) == ReturnsFor(T, MemberFn(T, T.me, T.mec))

\* has_member_end_v written as mere detection of t.end()
has_member_end_v_Detected(T) == is_detected(member_end_t(T))

has_member_end_v(T) ==
    Sentinel(detected_t(member_end_t(T)), detected_t(begin_t(T)))

nonmember_end_t(T) == ReturnsFor(T, FreeFn(T, T.fe, T.fec))

has_nonmember_end_v(T) ==
    Sentinel(detected_t(nonmember_end_t(T)), detected_t(begin_t(T)))

\* operator()(T (&t)[N])
end_array_viable(T) == is_array(T)

\* operator()(T& t), REQUIRES(has_member_end_v<T>)
end_member_viable(T) == has_member_end_v(T)

\* operator()(T& t), REQUIRES(has_nonmember_end_v<T> && !has_member_end_v<T>)
end_free_viable(T) == has_nonmember_end_v(T) /\ ~has_member_end_v(T)

\* operator()(const T&& t), REQUIRES(!is_array<T> &&
\*     (has_member_end_v<const T> || has_nonmember_end_v<const T>))
end_rvalue_viable(T) ==
    /\ ~is_array(T)
    /\ (has_member_end_v(AddConst(T)) \/ has_nonmember_end_v(AddConst(T)))

end_ref_overloads(T) ==
    {o \in {"array", "member", "free"} :
        \/ o = "array" /\ end_array_viable(T)
        \/ o = "member" /\ end_member_viable(T)
        \/ o = "free" /\ end_free_viable(T)}

end_result(T, sel) ==
    CASE sel = "array" ->
            Resolved("array", "none", WellFormed(ElemPointer(T)),
                     PtrValue(T, T.ext))
      [] sel = "member" ->
            Resolved("member", MemberOverload(T, T.me), member_end_t(T), NullPtr)
      [] sel = "free" ->
            Resolved("free", FreeFn(T, "nonconst", "const"), nonmember_end_t(T),
                     NullPtr)
      [] OTHER -> [NotCallable EXCEPT !.path = sel]

\* end_cpo{}(t) for t bound by lvalue reference to T
end_ref(T) == end_result(T, best_viable(end_ref_overloads(T)))

end_overloads(T, v) ==
    (IF BindsLvalueRef(T, v) THEN end_ref_overloads(T) ELSE {})
    \cup (IF v = "rvalue" /\ end_rvalue_viable(RemoveConst(T))
          THEN {"deprecated"} ELSE {})

end_dispatch(T, sel) ==
    IF sel = "deprecated" THEN Deprecated(end_ref(AddConst(T)))
    ELSE end_result(T, sel)

\* end_cpo::operator() on an argument of type T and value category v
end_cpo(T, v) == end_dispatch(T, best_viable(end_overloads(T, v)))

\* iterator_t<Rng> = decltype(nanorange::begin(std::declval<Rng&>()))
iterator_t(Rng) == decltype(begin_cpo(Rng, "lvalue"))

\* sentinel_t<Rng> = decltype(nanorange::end(std::declval<Rng&>()))
sentinel_t(Rng) == decltype(end_cpo(Rng, "lvalue"))

\* a Range that only asks for an Iterator, whatever end returns
Range_AnySentinel(T) == Iterator(detected_t(iterator_t(T)))

Range(T) ==
    /\ Iterator(detected_t(iterator_t(T)))
    /\ Same(detected_t(iterator_t(T)), detected_t(sentinel_t(T)))

\* InputRange<T> = Range<T> && InputIterator<iterator_t<T>>
InputRange(T) == Range(T) /\ InputIterator(detected_t(iterator_t(T)))

\* BoundedRange, InputRange, OutputRange<R, int>, ForwardRange,
\* BidirectionalRange and RandomAccessRange of a type T, given Range<T>
\* (range) and detected_t<iterator_t, T> (I)
RangeConcepts(range, I) ==
    [BoundedRange |-> range,
     InputRange |-> range /\ InputIterator(I),
     OutputRange |-> range /\ OutputIterator(I, IntT),
     ForwardRange |-> range /\ ForwardIterator(I),
     BidirectionalRange |-> range /\ BidirectionalIterator(I),
     RandomAccessRange |-> range /\ RandomAccessIterator(I)]

\* what a translation unit learns about T from iterator_t<T> (it),
\* sentinel_t<T> (se) and Range<T> (range)
Classified(range, it, se) ==
    [is_detected_iterator_t |-> is_detected(it),
     iterator_t |-> detected_t(it),
     sentinel_t |-> detected_t(se),
     Range |-> range,
     concepts |-> RangeConcepts(range, detected_t(it))]

\* an iterator type named where a range type is expected: the pointers and
\* the iterator classes of the model have no begin or end, member or free
AsRange(I) ==
    ClassRange(I.c, "absent", "absent", "absent", "absent",
               "absent", "absent", "absent", "absent")

\* REQUIRES(BidirectionalIterator<BidirIt> && Sortable<BidirIt, Comp>)
next_permutation_requires(BidirIt) ==
    BidirectionalIterator(BidirIt) /\ Sortable(BidirIt, "std::less<>")

\* REQUIRES(BidirectionalRange<BidirRng> &&
\*          Sortable<iterator_t<iterator_t<BidirRng>>, Comp>)
\* given Range<BidirRng> (range), iterator_t<BidirRng> (I) and
\* iterator_t<iterator_t<BidirRng>> (II); naming an alias that is ill-formed
\* removes the overload
next_permutation_Range_requires(range, I, II) ==
    /\ range /\ BidirectionalIterator(I)
    /\ II.ok
    /\ Sortable(II.type, "std::less<>")

\* REQUIRES(BidirectionalIterator<BidirIt> && Sortable<BidirIt, Comp>)
prev_permutation_requires(BidirIt) ==
    BidirectionalIterator(BidirIt) /\ Sortable(BidirIt, "std::less<>")

\* REQUIRES(BidirectionalRange<BidirRng> &&
\*          Sortable<iterator_t<BidirRng>, Comp>)
prev_permutation_Range_requires(range, I) ==
    /\ range /\ BidirectionalIterator(I)
    /\ Sortable(I, "std::less<>")

\* which overloads of next_permutation and prev_permutation accept a range
\* type, or its iterators, with the default comparator
PermutationOverloads(range, I) ==
    [next_permutation |-> next_permutation_requires(I),
     next_permutation_Range |->
        next_permutation_Range_requires(range, I, iterator_t(AsRange(I))),
     prev_permutation |-> prev_permutation_requires(I),
     prev_permutation_Range |-> prev_permutation_Range_requires(range, I),
     BidirectionalRange |-> range /\ BidirectionalIterator(I),
     iterator_t |-> I]

(***************************************************************************)
(* Translation units that name a range type and call begin / end on an     *)
(* lvalue or an rvalue of it, or ask whether it is a Range.                *)
(***************************************************************************)
BeginResults == {"absent", "ItA", "ItB", "int", "ItA&"}

EndResults == {"absent", "ItA", "Sent"}

ArrayElems == {IntT, ElemT("std::string", FALSE, "")}

RangeTypes ==
    {ClassRange(c, mb, mbc, fb, fbc, me, mec, fe, fec) :
        c \in BOOLEAN, mb \in BeginResults, mbc \in BeginResults \ {"ItA&"},
        fb \in BeginResults \ {"ItA&", "ItB"},
        fbc \in BeginResults \ {"ItA&", "ItB"},
        me \in EndResults, mec \in EndResults,
        fe \in EndResults \ {"Sent"}, fec \in EndResults \ {"Sent"}}
    \cup {ArrayRange(c, e, n, e.b = "std::string") :
            c \in BOOLEAN, e \in ArrayElems, n \in 1..MaxExtent}

ValueCategories == {"lvalue", "rvalue"}

InitCPO == arg \in RangeTypes /\ call = "declare" /\ ret = NoRet

BeginCall ==
    /\ call = "declare"
    /\ arg \in RangeTypes
    /\ \E v \in ValueCategories :
          ret' = [v |-> v, res |-> begin_cpo(arg, v)]
    /\ call' = "begin"
    /\ UNCHANGED arg

EndCall ==
    /\ call = "declare"
    /\ arg \in RangeTypes
    /\ \E v \in ValueCategories :
          ret' = [v |-> v, res |-> end_cpo(arg, v)]
    /\ call' = "end"
    /\ UNCHANGED arg

ClassifyRange ==
    /\ call = "declare"
    /\ arg \in RangeTypes
    /\ ret' = Classified(Range(arg), iterator_t(arg), sentinel_t(arg))
    /\ call' = "Range"
    /\ UNCHANGED arg

ClassifyPermutations ==
    /\ call = "declare"
    /\ arg \in RangeTypes
    /\ ret' = PermutationOverloads(Range(arg), detected_t(iterator_t(arg)))
    /\ call' = "permutations"
    /\ UNCHANGED arg

NextCPO == BeginCall \/ EndCall \/ ClassifyRange \/ ClassifyPermutations

SpecCPO == InitCPO /\ [][NextCPO]_vars


(***************************************************************************)
(* Properties of the customisation point objects.                          *)
(***************************************************************************)
\* the function named f of the range type returns a type satisfying Iterator
Satisfying(T, f) == f # "absent" /\ Iterator(ReturnsFor(T, f).type)

\* two calls invoke the same function and return the same thing
SameResult(r, q) ==
    /\ r.ok /\ q.ok
    /\ r.path = q.path /\ r.via = q.via
    /\ r.raw = q.raw /\ r.type = q.type /\ r.value = q.value

(***************************************************************************)
(* C24.  The range overload of next_permutation is callable for exactly    *)
(* the ranges the range overload of prev_permutation is callable for:      *)
(* the bidirectional ranges whose iterator type is Sortable with the       *)
(* comparator, an array of int among them; that is the precondition of the *)
(* iterator-pair overload applied to iterator_t of the range.              *)
(***************************************************************************)
C24_PermutationOverloadsAgree ==
    call = "permutations" =>
        /\ ret.next_permutation_Range = ret.prev_permutation_Range
        /\ ret.next_permutation_Range =
             (ret.BidirectionalRange /\ Sortable(ret.iterator_t, "std::less<>"))
        /\ ret.BidirectionalRange =>
             (ret.next_permutation_Range = ret.next_permutation)
        /\ (is_array(arg) /\ ~arg.c /\ arg.elem = IntT)
             => ret.next_permutation_Range

\* an array of int: prev_permutation(a) is accepted, next_permutation(a) is
\* not, though next_permutation(begin(a), end(a)) is
C24_Witness ==
    /\ call = "permutations"
    /\ is_array(arg) /\ ~arg.c /\ arg.elem = IntT
    /\ ret.prev_permutation_Range
    /\ ret.next_permutation
    /\ ~ret.next_permutation_Range

(***************************************************************************)
(* C1.  For every type that exposes both a member begin() whose result     *)
(* satisfies Iterator and a free begin() found by argument-dependent       *)
(* lookup whose result satisfies Iterator, begin called on an lvalue of    *)
(* that type resolves to the member form and never to the free form.       *)
(***************************************************************************)
C1_MemberPreferred ==
    (/\ call = "begin"
     /\ ret.v = "lvalue"
     /\ Satisfying(arg, MemberFn(arg, arg.mb, arg.mbc))
     /\ (Satisfying(arg, arg.fb) \/ Satisfying(arg, arg.fbc)))
    => /\ ret.res.ok
       /\ ret.res.path = "member"
       /\ ret.res.type = TypeNamed(MemberFn(arg, arg.mb, arg.mbc))

\* member begin returns ItB, free begin returns ItA: the call returns ItB
C1_Witness ==
    /\ call = "begin"
    /\ ret.v = "lvalue"
    /\ ~arg.c
    /\ arg.mb = "ItB"
    /\ arg.fb = "ItA"
    /\ ret.res.path = "member"
    /\ ret.res.type = TypeNamed("ItB")

(***************************************************************************)
(* C2.  For every built-in array T[N] (N >= 1), begin yields a pointer to  *)
(* element 0, end yields a pointer to element N (one past the last), and   *)
(* end - begin == N; no member or free-function form is consulted for an   *)
(* array.  (Every lvalue array is accepted; whenever a call on an array is *)
(* accepted it is the array overload that answers.)                        *)
(***************************************************************************)
C2_ArrayBounds ==
    (call \in {"begin", "end"} /\ is_array(arg))
    => /\ ret.v = "lvalue" => ret.res.ok
       /\ ret.res.ok =>
            /\ ret.res.path = "array"
            /\ ret.res.via = "none"
            /\ ret.res.type = PointerTo([arg.elem EXCEPT !.c = arg.c])
            /\ ret.res.value.into = RemoveConst(arg)
            /\ call = "begin" => ret.res.value.idx = 0
            /\ call = "end" =>
                 /\ ret.res.value.idx = arg.ext
                 /\ begin_cpo(arg, ret.v).ok
                 /\ ret.res.value.idx - begin_cpo(arg, ret.v).value.idx = arg.ext

\* end of an lvalue array whose element type's namespace supplies a free end
C2_Witness ==
    /\ call = "end"
    /\ is_array(arg)
    /\ arg.fe # "absent"
    /\ arg.ext > 1
    /\ ret.v = "lvalue"
    /\ ret.res.ok
    /\ ret.res.value.idx = arg.ext

(***************************************************************************)
(* C3.  For a non-array type, end accepts the member form or the free form *)
(* only if the type that form returns satisfies Sentinel together with the *)
(* type that begin returns for the same argument; if begin is not callable *)
(* for it, or the end result does not form a Sentinel with the begin       *)
(* result, end is not callable in either form.                             *)
(***************************************************************************)
\* the end function of the range type that an accepted call invokes
EndFnInvoked(T, res) ==
    CASE res.path = "member" /\ res.via = "nonconst" -> T.me
      [] res.path = "member" /\ res.via = "const"    -> T.mec
      [] res.path = "free" /\ res.via = "nonconst"   -> T.fe
      [] res.path = "free" /\ res.via = "const"      -> T.fec
      [] OTHER -> "absent"

C3_EndNeedsSentinel ==
    (call = "end" /\ ~is_array(arg))
    => /\ ret.res.ok =>
            /\ ret.res.path \in {"member", "free"}
            /\ EndFnInvoked(arg, ret.res) # "absent"
            /\ ret.res.raw = TypeNamed(EndFnInvoked(arg, ret.res))
            /\ begin_cpo(arg, ret.v).ok
            /\ Sentinel(ret.res.raw, begin_cpo(arg, ret.v).type)
       /\ ~begin_cpo(arg, ret.v).ok => ~ret.res.ok
       /\ (\A f \in {arg.me, arg.mec, arg.fe, arg.fec} :
               f = "absent"
               \/ ~Sentinel(TypeNamed(f), begin_cpo(arg, ret.v).type))
          => ~ret.res.ok

\* a member end() returning a type that compares with the iterator but is
\* not a Sentinel for it: end is rejected although begin is accepted
C3_Witness ==
    /\ call = "end"
    /\ ~is_array(arg)
    /\ arg.me = "Sent"
    /\ arg.mec = "Sent"
    /\ ret.v = "lvalue"
    /\ begin_cpo(arg, ret.v).ok
    /\ begin_cpo(arg, ret.v).type = TypeNamed("ItA")
    /\ ~ret.res.ok


\* the const-qualified range type has a satisfying member or free begin
ConstHasSatisfyingBegin(T) ==
    Satisfying(AddConst(T), T.mbc) \/ Satisfying(AddConst(T), T.fbc)

\* the range type produces an iterator only through a non-const member
OnlyNonConstMemberBegin(T) ==
    /\ Satisfying(T, T.mb)
    /\ ~Satisfying(T, T.mbc)
    /\ ~Satisfying(T, T.fb)
    /\ ~Satisfying(T, T.fbc)

\* the rvalue call went through the deprecated overload and returned what
\* begin on a const lvalue of the same range returns
AcceptedAsConstLvalue(T, res) ==
    /\ res.ok
    /\ res.deprecated
    /\ SameResult(res, begin_cpo(AddConst(T), "lvalue"))

(***************************************************************************)
(* C4 as stated.  Calling begin on an rvalue range is accepted, through    *)
(* the overload marked deprecated and with the same result as begin on a   *)
(* const lvalue of that range, exactly when the const-qualified range type *)
(* has a satisfying member or free begin; it is rejected when the range    *)
(* type produces an iterator only through a non-const member function.     *)
(***************************************************************************)
C4_RvalueAsStated ==
    (call = "begin" /\ ret.v = "rvalue")
    => /\ AcceptedAsConstLvalue(arg, ret.res) <=> ConstHasSatisfyingBegin(arg)
       /\ OnlyNonConstMemberBegin(arg) => ~ret.res.ok

(***************************************************************************)
(* C4 amended.  Calling begin on an rvalue of a non-array range type is    *)
(* accepted, through the deprecated overload and with the result of begin  *)
(* on a const lvalue, exactly when the const-qualified type has a          *)
(* satisfying member or free begin, and is rejected when only a non-const  *)
(* member produces an iterator.  An rvalue array never reaches the         *)
(* deprecated overload: a non-const rvalue array is rejected whatever free *)
(* begin its const form has, a const rvalue array is answered by the array *)
(* overload.                                                               *)
(***************************************************************************)
C4_RvalueNonArray ==
    (call = "begin" /\ ret.v = "rvalue")
    => /\ ~is_array(arg) =>
            /\ AcceptedAsConstLvalue(arg, ret.res)
                    <=> ConstHasSatisfyingBegin(arg)
            /\ ret.res.ok => ret.res.deprecated
            /\ OnlyNonConstMemberBegin(arg) => ~ret.res.ok
       /\ is_array(arg) =>
            /\ ~ret.res.deprecated
            /\ ret.res.ok <=> arg.c
            /\ ret.res.ok => ret.res.path = "array"

\* an rvalue of a class whose non-const begin() returns no iterator and whose
\* const begin() returns one: accepted, deprecated, through the const member
C4_Witness ==
    /\ call = "begin"
    /\ ret.v = "rvalue"
    /\ ~is_array(arg)
    /\ ~arg.c
    /\ arg.mb = "int"
    /\ arg.mbc = "ItA"
    /\ ret.res.ok
    /\ ret.res.deprecated
    /\ ret.res.path = "member"
    /\ ret.res.via = "const"

(***************************************************************************)
(* C5.  For every argument type that is not an array, has no member begin  *)
(* returning an Iterator, has no free begin found by argument-dependent    *)
(* lookup returning an Iterator, and has neither of these on its           *)
(* const-qualified form, begin is not callable (is_detected on the call is *)
(* false); the rejection is a detection result and no resolution path is   *)
(* selected.                                                               *)
(***************************************************************************)
NoSatisfyingBegin(T) ==
    /\ ~is_array(T)
    /\ \A f \in {T.mb, T.mbc, T.fb, T.fbc} : ~Satisfying(T, f)

C5_NotCallable ==
    /\ (call = "begin" /\ NoSatisfyingBegin(arg))
        => /\ ~ret.res.ok
           /\ ~ret.res.hard
           /\ ~ret.res.deprecated
           /\ ret.res.path = "none"
           /\ ret.res.type = NonesuchType
    /\ (call = "Range" /\ NoSatisfyingBegin(arg))
        => /\ ~ret.is_detected_iterator_t
           /\ ret.iterator_t = NonesuchType
           /\ ~ret.Range

\* a class whose member begin() returns int and whose free begin returns int
C5_Witness ==
    /\ call = "begin"
    /\ NoSatisfyingBegin(arg)
    /\ arg.mb = "int"
    /\ arg.fb = "int"
    /\ arg.mbc = "absent"
    /\ ~ret.res.ok


\* the types t.end() and end(t) have on an lvalue t of T, where well-formed
EndDeclared(T) ==
    {e.type : e \in {e \in {member_end_t(T), nonmember_end_t(T)} : e.ok}}

\* every range concept built on Range
RangeConceptNames ==
    {"BoundedRange", "InputRange", "OutputRange", "ForwardRange",
     "BidirectionalRange", "RandomAccessRange"}

DetectOps == {"member_begin_t", "nonmember_begin_t", "iterator_t", "sentinel_t"}

ExpectedTypes == {NonesuchType, TypeNamed("ItA")}

DetectTypes ==
    {ClassRange(FALSE, mb, mb, fb, fb, me, me, "absent", "absent") :
        mb \in {"absent", "ItA", "int"}, fb \in {"absent", "ItB"},
        me \in {"absent", "ItA", "Sent"}}
    \cup {ArrayRange(c, IntT, n, FALSE) : c \in BOOLEAN, n \in 1..MaxExtent}

\* Op<T>
Instantiate(op, T) ==
    CASE op = "member_begin_t" -> member_begin_t(T)
      [] op = "nonmember_begin_t" -> nonmember_begin_t(T)
      [] op = "iterator_t" -> iterator_t(T)
      [] op = "sentinel_t" -> sentinel_t(T)

\* what one use site sees of Op<Args...>, given the outcome sub of
\* substituting Args into Op
UseSite(op, Expected, sub) ==
    [op |-> op, Expected |-> Expected,
     is_detected |-> is_detected(sub),
     detected_t |-> detected_t(sub),
     detected_or_t |-> detected_or_t(Expected, sub),
     is_detected_exact |-> is_detected_exact(Expected, sub)]

InitDetect == arg \in DetectTypes /\ call = "declare" /\ ret = [uses |-> <<>>]

Detect ==
    /\ call \in {"declare", "detect"}
    /\ "uses" \in DOMAIN ret
    /\ Len(ret.uses) < MaxUses
    /\ \E op \in DetectOps, Expected \in ExpectedTypes :
          ret' = [uses |-> Append(ret.uses,
                                  UseSite(op, Expected, Instantiate(op, arg)))]
    /\ call' = "detect"
    /\ UNCHANGED arg

NextDetect == Detect

SpecDetect == InitDetect /\ [][NextDetect]_vars

\* the use sites evaluated so far
Uses == IF "uses" \in DOMAIN ret THEN {ret.uses[i] : i \in DOMAIN ret.uses} ELSE {}

(***************************************************************************)
(* C12.  is_detected_exact(Expected, Op, Args...) is true if and only if   *)
(* Op<Args...> is well-formed and is exactly Expected; in particular it is *)
(* false whenever detection fails, whatever Expected is, the placeholder   *)
(* type nonesuch included.                                                 *)
(***************************************************************************)
C12_ExactIffDetectedAndSame ==
    \A u \in Uses :
        u.is_detected_exact
            <=> (Instantiate(u.op, arg).ok
                 /\ Instantiate(u.op, arg).type = u.Expected)

\* is_detected_exact<nonesuch, member_begin_t, T> for a T without a member
\* begin
C12_Witness ==
    \E u \in Uses :
        /\ u.op = "member_begin_t"
        /\ arg.mb = "absent"
        /\ u.Expected = NonesuchType
        /\ ~u.is_detected
        /\ u.is_detected_exact

DerefTypes ==
    {ElemT("int", FALSE, "&"), ElemT("int", TRUE, "&"), IntT,
     ElemT("proxy", FALSE, ""), VoidT, nonesuch}

NestedValueTypes == {nonesuch, IntT, ElemT("int", TRUE, ""), ElemT("int", FALSE, "&")}

NestedElementTypes == {nonesuch, IntT, ElemT("int", TRUE, "")}

AliasBaseTypes ==
    {PointerTo(p) : p \in Pointees}
    \cup {Named("I", [FullTraits EXCEPT !.deref = d, !.value_type = vt,
                                        !.element_type = et]) :
            d \in DerefTypes, vt \in NestedValueTypes, et \in NestedElementTypes}

AliasTypes ==
    AliasBaseTypes
    \cup {Const(I) : I \in AliasBaseTypes}
    \cup {ArrayOf(e, n) : e \in {IntT, ElemT("int", TRUE, "")}, n \in 1..MaxExtent}

InitAlias == arg \in AliasTypes /\ call = "declare" /\ ret = NoRet

ValueTypeOf ==
    /\ call = "declare"
    /\ arg \in AliasTypes
    /\ ret' = [value_type |-> value_type(arg),
               reference |-> reference_sub(decay_t(arg)),
               Iterator |-> Iterator(decay_t(arg))]
    /\ call' = "value_type_t"
    /\ UNCHANGED arg

NextAlias == ValueTypeOf

SpecAlias == InitAlias /\ [][NextAlias]_vars

(***************************************************************************)
(* C10 as stated.  For every range R with iterator type I for which        *)
(* value_type_t<I> is defined, value_type_t<I> equals the type produced by *)
(* dereferencing an instance of I's decayed form.                          *)
(***************************************************************************)
C10_ValueTypeIsDerefType ==
    (call = "value_type_t" /\ ret.Iterator /\ ret.value_type.ok)
    => /\ ret.reference.ok
       /\ ret.value_type.type = ret.reference.type

(***************************************************************************)
(* C10 amended.  Whenever value_type_t<I> is defined it is an object type, *)
(* never the reference that dereferencing produces.  When decay_t<I> is a  *)
(* pointer it is the dereferenced type of decay_t<I> with its reference    *)
(* and cv-qualification removed.  When I is a class it is the nested       *)
(* value_type the class declares (else its nested element_type without cv) *)
(* whatever operator* returns.                                             *)
(***************************************************************************)
C10_ValueTypeDeclared ==
    (call = "value_type_t" /\ ret.value_type.ok)
    => /\ is_object(ret.value_type.type)
       /\ decay_t(arg).k = "ptr" =>
            /\ ret.reference.ok
            /\ ret.value_type.type = remove_cvref_t(ret.reference.type)
       /\ decay_t(arg).k = "named" =>
            ret.value_type.type =
                IF arg.tr.value_type # nonesuch THEN arg.tr.value_type
                ELSE remove_cv_t(arg.tr.element_type)

\* value_type_t<const int* const> is int, dereferencing gives const int&
C10_Witness ==
    /\ call = "value_type_t"
    /\ arg.k = "ptr"
    /\ arg.c
    /\ arg.pointee = ElemT("int", TRUE, "")
    /\ ret.value_type.ok
    /\ ret.value_type.type = IntT
    /\ ret.reference.type = ElemT("int", TRUE, "&")

\* the ranked choice: nested value_type, else nested element_type without
\* cv, else the pointee of a pointer or array; a candidate that is not an
\* object type gives no type
RankedFallback(I) ==
    IF I.k = "named" /\ I.tr.value_type # nonesuch
        THEN enable_if_object(I.tr.value_type, I.tr.value_type)
    ELSE IF I.k = "named" /\ I.tr.element_type # nonesuch
        THEN enable_if_object(I.tr.element_type, remove_cv_t(I.tr.element_type))
    ELSE IF I.k = "ptr"
        THEN enable_if_object(I.pointee, remove_cv_t(I.pointee))
    ELSE NoElem

(***************************************************************************)
(* C11.  value_type_t<T> follows the ranked fallback: nested value_type,   *)
(* else nested element_type (cv-stripped), else the pointee of a pointer   *)
(* or array; in particular a type with both a nested value_type and a      *)
(* nested element_type gets its nested value_type, and a candidate that is *)
(* not an object type leaves value_type_t undefined.                       *)
(***************************************************************************)
C11_RankedFallback ==
    call = "value_type_t" => ret.value_type = RankedFallback(decay_t(arg))

\* a class with value_type = int and element_type = int: both partial
\* specialisations match and neither is more specialised
C11_Witness ==
    /\ call = "value_type_t"
    /\ arg.k = "named"
    /\ arg.tr.value_type = IntT
    /\ arg.tr.element_type = IntT
    /\ ret.value_type.hard
    /\ ~ret.value_type.ok


(***************************************************************************)
(* The algorithm layer.  Memory holds two container objects; an iterator   *)
(* is an object, a position in it and an iterator type; a range is a view  *)
(* [lo, hi) of one object whose begin and end have the view's iterator     *)
(* type.                                                                   *)
(***************************************************************************)
Values == 1..MaxVal

AllSequences == UNION {[1..n -> Values] : n \in 0..MaxLen}

IterAt(obj, idx, ty) == [obj |-> obj, idx |-> idx, ty |-> ty]

View(obj, lo, hi, ty) == [obj |-> obj, lo |-> lo, hi |-> hi, ty |-> ty]

\* nanorange::begin(range) and nanorange::end(range) on an lvalue view
begin(range) == IterAt(range.obj, range.lo, range.ty)

end(range) == IterAt(range.obj, range.hi, range.ty)

\* [first, last) is a valid range: last is reachable from first
ValidRange(first, last) == first.obj = last.obj /\ first.idx <= last.idx

\* the elements of a valid range
Elements(mem, first, last) ==
    [i \in 1..(last.idx - first.idx) |-> mem[first.obj][first.idx + i]]

\* what a call can do: fail to compile, or return result and leave memory
\* mem; ub marks an outcome of undefined behaviour
Outcome(compiles, ub, result, mem) ==
    [compiles |-> compiles, ub |-> ub, result |-> result, mem |-> mem]

DoesNotCompile(mem) == {Outcome(FALSE, FALSE, FALSE, mem)}

Count(s, v) == Cardinality({i \in DOMAIN s : s[i] = v})

\* s and t hold the same elements the same number of times (std::equal_to)
IsPermutationOf(s, t) ==
    Len(s) = Len(t) /\ \A v \in Values : Count(s, v) = Count(t, v)

Rearrangements(s) == {p \in [DOMAIN s -> Values] : IsPermutationOf(p, s)}

\* std::equal(first1, last1, first2, last2, std::equal_to<>{})
std_equal(mem, first1, last1, first2, last2) ==
    IF first1.ty # last1.ty \/ first2.ty # last2.ty THEN DoesNotCompile(mem)
    ELSE IF ~ValidRange(first1, last1) \/ ~ValidRange(first2, last2)
        THEN {Outcome(TRUE, TRUE, b, mem) : b \in BOOLEAN}
    ELSE {Outcome(TRUE, FALSE,
                  Elements(mem, first1, last1) = Elements(mem, first2, last2),
                  mem)}

\* std::is_permutation(first1, last1, first2, last2, std::equal_to<>{})
std_is_permutation(mem, first1, last1, first2, last2) ==
    IF first1.ty # last1.ty \/ first2.ty # last2.ty THEN DoesNotCompile(mem)
    ELSE IF ~ValidRange(first1, last1) \/ ~ValidRange(first2, last2)
        THEN {Outcome(TRUE, TRUE, b, mem) : b \in BOOLEAN}
    ELSE {Outcome(TRUE, FALSE,
                  IsPermutationOf(Elements(mem, first1, last1),
                                  Elements(mem, first2, last2)),
                  mem)}

\* mem with the elements of [first, last) replaced by those of p
Rearranged(mem, first, last, p) ==
    [mem EXCEPT ![first.obj] =
        [i \in DOMAIN mem[first.obj] |->
            IF first.idx < i /\ i <= last.idx THEN p[i - first.idx]
            ELSE mem[first.obj][i]]]

\* the postcondition of nth_element on the rearranged elements p of
\* [first, last), k the offset of nth: nothing after nth is less than
\* anything before it, nor than the element at nth
NthPlaced(p, k) ==
    \A i \in DOMAIN p : \A j \in DOMAIN p :
        (i <= k + 1 /\ k + 1 <= j) => ~(p[j] < p[i])

\* std::nth_element(first, nth, last, std::less<>{}); outside its
\* precondition the elements of the object end in any order
std_nth_element(mem, first, nth, last) ==
    IF first.ty # nth.ty \/ nth.ty # last.ty THEN DoesNotCompile(mem)
    ELSE IF ~ValidRange(first, nth) \/ ~ValidRange(nth, last)
        THEN {Outcome(TRUE, TRUE, FALSE, [mem EXCEPT ![first.obj] = p]) :
                p \in Rearrangements(mem[first.obj])}
    ELSE IF nth = last THEN {Outcome(TRUE, FALSE, FALSE, mem)}
    ELSE {Outcome(TRUE, FALSE, FALSE, Rearranged(mem, first, last, p)) :
            p \in {q \in Rearrangements(Elements(mem, first, last)) :
                     NthPlaced(q, nth.idx - first.idx)}}


\* bool equal(Iter1 first1, Iter1 last1, Iter2 first2, Iter2 last2, pred = {})
equal(mem, first1, last1, first2, last2) ==
    std_equal(mem, first1, last1, first2, last2)

\* bool equal(Range1&& range1, Range2&& range2, pred = {})
equal_Range(mem, range1, range2) ==
    std_equal(mem, begin(range1), end(range1), begin(range2), end(range2))

\* bool is_permutation(ForwardIt1 first1, ForwardIt1 last1,
\*                     ForwardIt2 first2, ForwardIt2 last2, pred = {})
is_permutation(mem, first1, last1, first2, last2) ==
    std_is_permutation(mem, first1, last1, first2, last2)

\* bool is_permutation(ForwardRng1&& range1, ForwardRng2&& range2, pred = {})
is_permutation_Range(mem, range1, range2) ==
    std_is_permutation(mem, begin(range1), end(range2),
                       begin(range2), end(range2))

\* void nth_element(Iter first, Iter nth, Iter last, comp = {})
nth_element(mem, first, nth, last) == std_nth_element(mem, first, nth, last)

\* void nth_element(Range&& range, iterator_t<Range> nth, comp = {})
nth_element_Range(mem, range, nth) ==
    std_nth_element(mem, begin(range), end(range), nth)

(***************************************************************************)
(* Programs that call an algorithm on two ranges.  Both container objects  *)
(* start with the same contents; range1 is a view of object 1, range2 a    *)
(* view of object 1 with the same iterator type or a view of object 2      *)
(* with the same or with another iterator type.                            *)
(***************************************************************************)
Views(data, obj, ty) ==
    {w \in {View(obj, lo, hi, ty) : lo \in 0..Len(data), hi \in 0..Len(data)} :
        w.lo <= w.hi}

Memory(a) == <<a.data, a.data>>

NoIter == IterAt(0, 0, "none")

InitAlg ==
    /\ \E d \in AllSequences :
         \E a \in Views(d, 1, "ItA"),
            b \in Views(d, 1, "ItA") \cup Views(d, 2, "ItA")
                    \cup Views(d, 2, "ItB") :
            arg = [data |-> d, range1 |-> a, range2 |-> b]
    /\ call = "declare"
    /\ ret = NoRet

Equal ==
    /\ call = "declare"
    /\ "range1" \in DOMAIN arg
    /\ \E out \in equal(Memory(arg), begin(arg.range1), end(arg.range1),
                        begin(arg.range2), end(arg.range2)) :
          ret' = [form |-> "iterator", nth |-> NoIter, out |-> out]
    /\ call' = "equal"
    /\ UNCHANGED arg

EqualRange ==
    /\ call = "declare"
    /\ "range1" \in DOMAIN arg
    /\ \E out \in equal_Range(Memory(arg), arg.range1, arg.range2) :
          ret' = [form |-> "range", nth |-> NoIter, out |-> out]
    /\ call' = "equal"
    /\ UNCHANGED arg

IsPermutation ==
    /\ call = "declare"
    /\ "range1" \in DOMAIN arg
    /\ \E out \in is_permutation(Memory(arg),
                                 begin(arg.range1), end(arg.range1),
                                 begin(arg.range2), end(arg.range2)) :
          ret' = [form |-> "iterator", nth |-> NoIter, out |-> out]
    /\ call' = "is_permutation"
    /\ UNCHANGED arg

IsPermutationRange ==
    /\ call = "declare"
    /\ "range1" \in DOMAIN arg
    /\ \E out \in is_permutation_Range(Memory(arg), arg.range1, arg.range2) :
          ret' = [form |-> "range", nth |-> NoIter, out |-> out]
    /\ call' = "is_permutation"
    /\ UNCHANGED arg

NthElement ==
    /\ call = "declare"
    /\ "range1" \in DOMAIN arg
    /\ \E k \in arg.range1.lo..arg.range1.hi :
        LET nth == IterAt(arg.range1.obj, k, arg.range1.ty) IN
        \E out \in nth_element(Memory(arg), begin(arg.range1), nth,
                               end(arg.range1)) :
            ret' = [form |-> "iterator", nth |-> nth, out |-> out]
    /\ call' = "nth_element"
    /\ UNCHANGED arg

NthElementRange ==
    /\ call = "declare"
    /\ "range1" \in DOMAIN arg
    /\ \E k \in arg.range1.lo..arg.range1.hi :
        LET nth == IterAt(arg.range1.obj, k, arg.range1.ty) IN
        \E out \in nth_element_Range(Memory(arg), arg.range1, nth) :
            ret' = [form |-> "range", nth |-> nth, out |-> out]
    /\ call' = "nth_element"
    /\ UNCHANGED arg

NextAlg ==
    \/ Equal \/ EqualRange
    \/ IsPermutation \/ IsPermutationRange
    \/ NthElement \/ NthElementRange

SpecAlg == InitAlg /\ [][NextAlg]_vars


\* the elements a range holds
Contents(a, range) == Elements(Memory(a), begin(range), end(range))

\* what the iterator-taking overload of the algorithm last called does when
\* handed begin and end of each range, each range with its own bounds
IteratorOverload ==
    CASE call = "equal" ->
            equal(Memory(arg), begin(arg.range1), end(arg.range1),
                  begin(arg.range2), end(arg.range2))
      [] call = "is_permutation" ->
            is_permutation(Memory(arg), begin(arg.range1), end(arg.range1),
                           begin(arg.range2), end(arg.range2))
      [] call = "nth_element" ->
            nth_element(Memory(arg), begin(arg.range1), ret.nth,
                        end(arg.range1))
      [] OTHER -> {}

(***************************************************************************)
(* C7.  For every algorithm of the layer, the range-taking overload gives  *)
(* the same result and the same final sequence contents as the             *)
(* iterator-taking overload called with begin(range) and end(range) of     *)
(* each range argument, each range paired with its own begin and its own   *)
(* end and every auxiliary iterator passed in the same role.               *)
(***************************************************************************)
C7_RangeOverloadIsIteratorOverload ==
    (call \in {"equal", "is_permutation", "nth_element"} /\ ret.form = "range")
    => \E o \in IteratorOverload :
          /\ o.compiles = ret.out.compiles
          /\ o.result = ret.out.result
          /\ o.mem = ret.out.mem

\* two views of one container with the same begin, range1 the shorter: the
\* range overload answers true, the iterator overload false
C7_Witness ==
    /\ call = "is_permutation"
    /\ ret.form = "range"
    /\ arg.range1.obj = arg.range2.obj
    /\ arg.range1.hi < arg.range2.hi
    /\ arg.range1.lo = arg.range2.lo
    /\ ~ret.out.ub
    /\ ret.out.result
    /\ \A o \in IteratorOverload : ~o.result

\* the elements of range1 after the call
ContentsAfter == Elements(ret.out.mem, begin(arg.range1), end(arg.range1))

(***************************************************************************)
(* C23.  The range form nth_element(range, nth) does what the iterator     *)
(* form nth_element(begin(range), nth, end(range)) does: it has defined    *)
(* behaviour, leaves the elements of the range rearranged so that nothing  *)
(* before nth is greater than the element at nth and nothing from nth on   *)
(* is less than it (the element a full sort would place there), and its    *)
(* outcome is one the iterator form can produce.                           *)
(***************************************************************************)
C23_NthElementRangePlaces ==
    (call = "nth_element" /\ ret.form = "range") =>
        /\ ret.out.compiles
        /\ ~ret.out.ub
        /\ IsPermutationOf(ContentsAfter, Contents(arg, arg.range1))
        /\ NthPlaced(ContentsAfter, ret.nth.idx - arg.range1.lo)
        /\ ret.out \in IteratorOverload

\* nth before the end of the range: the range form has undefined behaviour
\* and can leave an element that is less than the one at nth after it
C23_Witness ==
    /\ call = "nth_element"
    /\ ret.form = "range"
    /\ ret.nth.idx < arg.range1.hi
    /\ ret.out.ub
    /\ ~NthPlaced(ContentsAfter, ret.nth.idx - arg.range1.lo)
    /\ \A o \in IteratorOverload : ~o.ub

(***************************************************************************)
(* C8.  The range overload of is_permutation(range1, range2, pred)         *)
(* compares the elements of [begin(range1), end(range1)) against those of  *)
(* [begin(range2), end(range2)), each range with its own bounds, and       *)
(* returns true exactly when one sequence is a permutation of the other    *)
(* under pred (in particular false when the two ranges have different      *)
(* lengths).                                                               *)
(***************************************************************************)
C8_IsPermutationOwnBounds ==
    (call = "is_permutation" /\ ret.form = "range")
    => /\ ret.out.compiles
       /\ ret.out.result = IsPermutationOf(Contents(arg, arg.range1),
                                          Contents(arg, arg.range2))
       /\ Len(Contents(arg, arg.range1)) # Len(Contents(arg, arg.range2))
            => ~ret.out.result

\* two containers holding the same elements: the call reads
\* [begin(range1), end(range2)), which is no range at all
C8_Witness ==
    /\ call = "is_permutation"
    /\ ret.form = "range"
    /\ arg.range1.obj # arg.range2.obj
    /\ arg.range1.ty = arg.range2.ty
    /\ Len(Contents(arg, arg.range1)) > 1
    /\ Contents(arg, arg.range1) = Contents(arg, arg.range2)
    /\ ret.out.ub
    /\ ~ret.out.result


(***************************************************************************)
(* dangling and safe_iterator_t, and an algorithm that returns an iterator *)
(* into its range: find.                                                   *)
(***************************************************************************)
\* the template argument deduced for Range&& from an argument of type T:
\* T& for an lvalue, T for an rvalue
Deduced(T, v) == [T |-> T, is_lvalue_reference |-> v = "lvalue"]

\* what an algorithm hands back: an iterator of type type, as it is
\* (wrapper "none") or held as value_ inside a dangling<type>
Plain(type, it) == [wrapper |-> "none", type |-> type, value_ |-> it]

\* dangling<T>::dangling(T t) : value_(t)
dangling(type, t) == [wrapper |-> "dangling", type |-> type, value_ |-> t]

\* T dangling<T>::get_unsafe() { return value_; }
get_unsafe(d) == d.value_

\* safe_iterator_t that is iterator_t<Range> for every Range
safe_iterator_t_Plain(Rng) == [wrapper |-> "none", type |-> detected_t(iterator_t(Rng.T))]

\* std::conditional_t<std::is_lvalue_reference<Range>::value,
\*                    iterator_t<Range>, dangling<iterator_t<Range>>>
safe_iterator_t(Rng) ==
    IF Rng.is_lvalue_reference
        THEN [wrapper |-> "none", type |-> detected_t(iterator_t(Rng.T))]
    ELSE [wrapper |-> "dangling", type |-> detected_t(iterator_t(Rng.T))]

\* std::find(first, last, value): the first position holding value, else last
std_find(mem, first, last, value) ==
    LET hits == {i \in (first.idx + 1)..last.idx : mem[first.obj][i] = value}
    IN  IF hits = {} THEN last
        ELSE [first EXCEPT !.idx = (CHOOSE i \in hits : \A j \in hits : i <= j) - 1]

\* Iter find(Iter first, Iter last, const T& value)
find(mem, first, last, value) == std_find(mem, first, last, value)

\* the iterator type of the container object, as the name a view carries
IterName(T) ==
    LET I == detected_t(iterator_t(T))
    IN  IF I.k = "ptr" THEN "ptr" ELSE I.id

\* safe_iterator_t<Range> find(Range&& range, const T& value), called on an
\* lvalue or an rvalue of type T that is the container object 1
find_Range(mem, T, v, value) ==
    IF ~InputRange(T) THEN [callable |-> FALSE,
                            ret |-> Plain(NonesuchType, NoIter)]
    ELSE LET range == View(1, 0, Len(mem[1]), IterName(T))
             found == std_find(mem, begin(range), end(range), value)
             R == safe_iterator_t(Deduced(T, v))
         IN  [callable |-> TRUE,
              ret |-> IF R.wrapper = "dangling" THEN dangling(R.type, found)
                      ELSE Plain(R.type, found)]

(***************************************************************************)
(* Programs that call find on a container: a vector-like class with        *)
(* iterator and const_iterator, a class with only a non-const begin/end, a *)
(* class whose end() returns a sentinel type, a class whose non-const      *)
(* begin() returns no iterator, a class without begin, and arrays.         *)
(***************************************************************************)
FindRangeTypes(data) ==
    {ClassRange(c, "ItA", "ItB", "absent", "absent",
                "ItA", "ItA", "absent", "absent") : c \in {FALSE}}
    \cup {ClassRange(c, "ItB", "ItA", "absent", "absent",
                     "ItA", "ItA", "absent", "absent") : c \in BOOLEAN}
    \cup {ClassRange(c, "ItA", "absent", "absent", "absent",
                     "ItA", "absent", "absent", "absent") : c \in BOOLEAN}
    \cup {ClassRange(FALSE, "absent", "absent", "ItA", "ItA",
                     "absent", "absent", "ItA", "ItA"),
          ClassRange(FALSE, "ItA", "ItA", "absent", "absent",
                     "Sent", "Sent", "absent", "absent"),
          ClassRange(FALSE, "int", "ItA", "absent", "absent",
                     "ItA", "ItA", "absent", "absent"),
          ClassRange(FALSE, "absent", "absent", "absent", "absent",
                     "absent", "absent", "absent", "absent")}
    \cup {ArrayRange(c, IntT, Len(data), FALSE) :
            c \in IF Len(data) > 0 /\ Len(data) <= MaxExtent THEN BOOLEAN ELSE {}}

InitFind ==
    /\ \E d \in AllSequences :
         \E T \in FindRangeTypes(d), x \in Values :
            arg = [T |-> T, data |-> d, value |-> x]
    /\ call = "declare"
    /\ ret = NoRet

\* find(first, last, value) on the begin and end of an lvalue of the range
Find ==
    /\ call = "declare"
    /\ "value" \in DOMAIN arg
    /\ InputRange(arg.T)
    /\ LET range == View(1, 0, Len(arg.data), IterName(arg.T)) IN
       ret' = [form |-> "iterator", v |-> "lvalue",
               out |-> [callable |-> TRUE,
                        ret |-> Plain(detected_t(iterator_t(arg.T)),
                                      find(Memory(arg), begin(range),
                                           end(range), arg.value))]]
    /\ call' = "find"
    /\ UNCHANGED arg

FindRange ==
    /\ call = "declare"
    /\ "value" \in DOMAIN arg
    /\ \E v \in ValueCategories :
          ret' = [form |-> "range", v |-> v,
                  out |-> find_Range(Memory(arg), arg.T, v, arg.value)]
    /\ call' = "find"
    /\ UNCHANGED arg

NextFind == Find \/ FindRange

SpecFind == InitFind /\ [][NextFind]_vars


(***************************************************************************)
(* C9.  For every range-taking algorithm that returns an iterator into its *)
(* range: when the range argument is an lvalue the return type is exactly  *)
(* iterator_t of the range, and when it is an rvalue the return is a       *)
(* dangling wrapper whose get_unsafe() yields the same iterator the lvalue *)
(* call would have returned; the plain iterator is never returned directly *)
(* for an rvalue range.                                                    *)
(***************************************************************************)
C9_SafeIterator ==
    (call = "find" /\ ret.form = "range" /\ ret.out.callable)
    => LET onLvalue == find_Range(Memory(arg), arg.T, "lvalue", arg.value)
           inRange == View(1, 0, Len(arg.data), IterName(arg.T))
       IN  /\ ret.out.ret.type = detected_t(iterator_t(arg.T))
           /\ Iterator(ret.out.ret.type)
           /\ ret.v = "lvalue" =>
                /\ ret.out.ret.wrapper = "none"
                /\ ret.out.ret.value_ =
                       find(Memory(arg), begin(inRange), end(inRange), arg.value)
           /\ ret.v = "rvalue" =>
                /\ ret.out.ret.wrapper = "dangling"
                /\ onLvalue.callable
                /\ get_unsafe(ret.out.ret) = onLvalue.ret.value_

\* find on an rvalue container whose second element is the first match
C9_Witness ==
    /\ call = "find"
    /\ ret.form = "range"
    /\ ret.v = "rvalue"
    /\ arg.T.k = "class"
    /\ ret.out.callable
    /\ ret.out.ret.wrapper = "dangling"
    /\ get_unsafe(ret.out.ret).idx = 1
    /\ Len(arg.data) > 2


(***************************************************************************)
(* Sorting, merging, numeric and copying algorithms over int arrays.  The  *)
(* memory of a program is a sequence of array objects; an iterator into    *)
(* object k carries the pointer type begin gives on the array.             *)
(***************************************************************************)
\* the array type of an object holding n ints, const-qualified or not
IntArray(c, n) == ArrayRange(c, IntT, n, FALSE)

\* the array types the programs below declare, and the pointer types their
\* elements are reached through
LargestExtent ==
    CHOOSE m \in {MaxSortLen, MaxMergeLen, MaxSeqLen} :
        \A k \in {MaxSortLen, MaxMergeLen, MaxSeqLen} : k <= m

ArrayTypes == {IntArray(c, n) : c \in BOOLEAN, n \in 1..LargestExtent}

PointerTypes == {ElemPointer(IntArray(c, 1)) : c \in BOOLEAN}

\* the array lvalue that is object obj of mem, as a range
ArrayView(T, obj) == View(obj, 0, T.ext, ElemPointer(T))

IsSorted(s) == \A i \in DOMAIN s : \A j \in DOMAIN s : i < j => ~(s[j] < s[i])

\* s and t hold the same ints the same number of times
IsRearrangementOf(s, t) ==
    /\ Len(s) = Len(t)
    /\ \A i \in DOMAIN s : Count(s, s[i]) = Count(t, s[i])

\* every order the elements of s can be left in
Permuted(s) ==
    {p \in [DOMAIN s -> {s[i] : i \in DOMAIN s}] : IsRearrangementOf(p, s)}

\* s with x put before the first element that x is less than
RECURSIVE InsertSorted(_, _)
InsertSorted(s, x) ==
    IF s = <<>> THEN <<x>>
    ELSE IF x < Head(s) THEN <<x>> \o s
    ELSE <<Head(s)>> \o InsertSorted(Tail(s), x)

RECURSIVE InsertionSort(_)
InsertionSort(s) ==
    IF s = <<>> THEN <<>>
    ELSE InsertSorted(InsertionSort(SubSeq(s, 1, Len(s) - 1)), s[Len(s)])

\* std::sort that leaves the elements where they are
std_sort_Noop(mem, first, last) ==
    IF first.ty # last.ty THEN DoesNotCompile(mem)
    ELSE {Outcome(TRUE, ~ValidRange(first, last), "void", mem)}

\* std::sort(first, last, std::less<>{})
std_sort(mem, first, last) ==
    IF first.ty # last.ty THEN DoesNotCompile(mem)
    ELSE IF ~ValidRange(first, last)
        THEN {Outcome(TRUE, TRUE, "void", [mem EXCEPT ![first.obj] = p]) :
                p \in Permuted(mem[first.obj])}
    ELSE {Outcome(TRUE, FALSE, "void",
                  Rearranged(mem, first, last,
                             InsertionSort(Elements(mem, first, last))))}

\* the constraint of sort as instantiated for each pointer type: a
\* template is instantiated once for each type it is used with
sort_viable == [Iter \in PointerTypes |-> sort_requires(Iter, "std::less<>")]

\* void sort(Iter first, Iter last, Comp comp = {})
sort(mem, first, last) ==
    IF first.ty # last.ty \/ ~sort_viable[first.ty]
        THEN DoesNotCompile(mem)
    ELSE std_sort(mem, first, last)

\* REQUIRES(RandomAccessRange<Range> && Sortable<iterator_t<Range>, Comp>)
sort_Range_requires(range, I) ==
    /\ RangeConcepts(range, I).RandomAccessRange
    /\ Sortable(I, "std::less<>")

sort_Range_viable ==
    [T \in ArrayTypes |->
        sort_Range_requires(Range(T), detected_t(iterator_t(T)))]

\* void sort(Range&& range, Comp comp = {}) on an lvalue of type T that is
\* object obj
sort_Range(mem, T, obj) ==
    IF ~sort_Range_viable[T]
        THEN DoesNotCompile(mem)
    ELSE std_sort(mem, begin(ArrayView(T, obj)), end(ArrayView(T, obj)))

\* what std::merge(first1, last1, first2, last2, ofirst, std::less<>{})
\* writes: the next element is taken from the second range only when it is
\* less than the next element of the first
RECURSIVE MergeSeq(_, _)
MergeSeq(s, t) ==
    IF s = <<>> THEN t
    ELSE IF t = <<>> THEN s
    ELSE IF Head(t) < Head(s) THEN <<Head(t)>> \o MergeSeq(s, Tail(t))
    ELSE <<Head(s)>> \o MergeSeq(Tail(s), t)

\* mem with w written to the elements that follow position ofirst
Written(mem, ofirst, w) ==
    [mem EXCEPT ![ofirst.obj] =
        [i \in DOMAIN mem[ofirst.obj] |->
            IF ofirst.idx < i /\ i <= ofirst.idx + Len(w)
                THEN w[i - ofirst.idx]
            ELSE mem[ofirst.obj][i]]]

\* ofirst advanced past n elements
Advanced(ofirst, n) == IterAt(ofirst.obj, ofirst.idx + n, ofirst.ty)

\* std::merge that writes the first range and then the second
std_merge_Concatenate(mem, first1, last1, first2, last2, ofirst) ==
    IF first1.ty # last1.ty \/ first2.ty # last2.ty THEN DoesNotCompile(mem)
    ELSE {Outcome(TRUE, FALSE,
                  Advanced(ofirst, (last1.idx - first1.idx)
                                     + (last2.idx - first2.idx)),
                  Written(mem, ofirst,
                          Elements(mem, first1, last1)
                            \o Elements(mem, first2, last2)))}

\* std::merge(first1, last1, first2, last2, ofirst, std::less<>{}) into an
\* output that has room and overlaps neither input
std_merge(mem, first1, last1, first2, last2, ofirst) ==
    IF first1.ty # last1.ty \/ first2.ty # last2.ty THEN DoesNotCompile(mem)
    ELSE {Outcome(TRUE, FALSE,
                  Advanced(ofirst, (last1.idx - first1.idx)
                                     + (last2.idx - first2.idx)),
                  Written(mem, ofirst,
                          MergeSeq(Elements(mem, first1, last1),
                                   Elements(mem, first2, last2))))}

\* REQUIRES(InputIterator<InputIt1> && InputIterator<InputIt2> &&
\*          WeaklyIncrementable<OutputIt> &&
\*          Mergeable<InputIt1, InputIt2, OutputIt, Comp>)
merge_requires(InputIt1, InputIt2, OutputIt) ==
    /\ InputIterator(InputIt1)
    /\ InputIterator(InputIt2)
    /\ WeaklyIncrementable(OutputIt)
    /\ Mergeable(InputIt1, InputIt2, OutputIt, "std::less<>")

merge_viable ==
    [InputIt1 \in PointerTypes, InputIt2 \in PointerTypes,
     OutputIt \in PointerTypes |->
        merge_requires(InputIt1, InputIt2, OutputIt)]

\* OutputIt merge(InputIt1 first1, InputIt1 last1, InputIt2 first2,
\*                InputIt2 last2, OutputIt ofirst, Comp comp = {})
merge(mem, first1, last1, first2, last2, ofirst) ==
    IF \/ first1.ty # last1.ty
       \/ first2.ty # last2.ty
       \/ ~merge_viable[first1.ty, first2.ty, ofirst.ty]
        THEN DoesNotCompile(mem)
    ELSE std_merge(mem, first1, last1, first2, last2, ofirst)

\* REQUIRES(InputRange<InputRng1> && InputRange<InputRng2> &&
\*          WeaklyIncrementable<OutputIt> &&
\*          Mergeable<iterator_t<InputRng1>, iterator_t<InputRng2>,
\*                    OutputIt, Comp>)
merge_Range_requires(range1, I1, range2, I2, OutputIt) ==
    /\ RangeConcepts(range1, I1).InputRange
    /\ RangeConcepts(range2, I2).InputRange
    /\ WeaklyIncrementable(OutputIt)
    /\ Mergeable(I1, I2, OutputIt, "std::less<>")

merge_Range_viable ==
    [T1 \in ArrayTypes, T2 \in ArrayTypes, OutputIt \in PointerTypes |->
        merge_Range_requires(Range(T1), detected_t(iterator_t(T1)),
                             Range(T2), detected_t(iterator_t(T2)),
                             OutputIt)]

\* OutputIt merge(InputRng1&& range1, InputRng2&& range2, OutputIt ofirst,
\*                Comp comp = {}) on lvalues of types T1 and T2 that are
\* objects obj1 and obj2
merge_Range(mem, T1, obj1, T2, obj2, ofirst) ==
    IF ~merge_Range_viable[T1, T2, ofirst.ty]
        THEN DoesNotCompile(mem)
    ELSE std_merge(mem, begin(ArrayView(T1, obj1)), end(ArrayView(T1, obj1)),
                   begin(ArrayView(T2, obj2)), end(ArrayView(T2, obj2)),
                   ofirst)

\* Copyable<T> of an element type T:
\* CopyConstructible<T> && Movable<T> && Assignable<T&, const T&>
Copyable_T(T) ==
    /\ Constructible(T, [T EXCEPT !.c = TRUE, !.r = "&"])
    /\ Movable(T)
    /\ Assignable([T EXCEPT !.r = "&"], [T EXCEPT !.c = TRUE, !.r = "&"])

\* std::result_of_t<std::plus<>&(T, U)>: the type of t + u
plus_result_of_t(T, U) ==
    IF remove_cvref_t(T) = IntT /\ remove_cvref_t(U) = IntT THEN IntT
    ELSE nonesuch

RECURSIVE SumOf(_)
SumOf(s) == IF s = <<>> THEN 0 ELSE SumOf(SubSeq(s, 1, Len(s) - 1)) + s[Len(s)]

\* std::accumulate(first, last, init, std::plus<>{}): init = init + *first
\* for each position of [first, last) in turn; reads lists the positions
\* dereferenced
std_accumulate(mem, first, last, init) ==
    IF first.ty # last.ty THEN DoesNotCompile(mem)
    ELSE {Outcome(TRUE, FALSE,
                  [value |-> init + SumOf(Elements(mem, first, last)),
                   reads |-> [i \in 1..(last.idx - first.idx) |->
                                first.idx + i]],
                  mem)}

\* REQUIRES(InputIterator<InputIt> && Copyable<T> &&
\*          Assignable<T, std::result_of_t<BinOp&(const T&,
\*                                                value_type_t<InputIt>)>>)
accumulate_requires(InputIt, T) ==
    /\ InputIterator(InputIt)
    /\ Copyable_T(T)
    /\ Assignable(T, plus_result_of_t([T EXCEPT !.c = TRUE, !.r = "&"],
                                      value_type_t(InputIt)))

accumulate_viable ==
    [InputIt \in PointerTypes, T \in {IntT} |->
        accumulate_requires(InputIt, T)]

\* T accumulate(InputIt first, InputIt last, T init, BinOp op = {}) with an
\* init of type T
accumulate(mem, first, last, T, init) ==
    IF first.ty # last.ty \/ ~accumulate_viable[first.ty, T]
        THEN DoesNotCompile(mem)
    ELSE std_accumulate(mem, first, last, init)

\* REQUIRES(InputRange<InputRng> &&
\*          std::is_assignable<T, std::result_of_t<BinOp&(const T&,
\*                                  range_value_type_t<InputRng>)>>::value)
accumulate_Range_requires(range, I, T) ==
    /\ RangeConcepts(range, I).InputRange
    /\ Assignable(T, plus_result_of_t([T EXCEPT !.c = TRUE, !.r = "&"],
                                      value_type_t(I)))

accumulate_Range_viable ==
    [Rng \in ArrayTypes, T \in {IntT} |->
        accumulate_Range_requires(Range(Rng), detected_t(iterator_t(Rng)), T)]

\* T accumulate(InputRng&& range, T init, BinOp op = {}) on an lvalue of
\* type Rng that is object obj
accumulate_Range(mem, Rng, obj, T, init) ==
    IF ~accumulate_Range_viable[Rng, T]
        THEN DoesNotCompile(mem)
    ELSE std_accumulate(mem, begin(ArrayView(Rng, obj)),
                        end(ArrayView(Rng, obj)), init)

\* the elements of s from the last to the first
Reversed(s) == [i \in DOMAIN s |-> s[Len(s) + 1 - i]]

\* std::reverse_copy that copies in the order of the input
std_reverse_copy_Forward(mem, first, last, ofirst) ==
    IF first.ty # last.ty THEN DoesNotCompile(mem)
    ELSE {Outcome(TRUE, FALSE, Advanced(ofirst, last.idx - first.idx),
                  Written(mem, ofirst, Elements(mem, first, last)))}

\* std::reverse_copy(first, last, ofirst): *ofirst++ = *--last until
\* first == last, into an output that has room and does not overlap
std_reverse_copy(mem, first, last, ofirst) ==
    IF first.ty # last.ty THEN DoesNotCompile(mem)
    ELSE {Outcome(TRUE, FALSE, Advanced(ofirst, last.idx - first.idx),
                  Written(mem, ofirst, Reversed(Elements(mem, first, last))))}

\* REQUIRES(BidirectionalIterator<Iter1> && WeaklyIncrementable<Iter2> &&
\*          IndirectlyCopyable<Iter1, Iter2>)
reverse_copy_requires(Iter1, Iter2) ==
    /\ BidirectionalIterator(Iter1)
    /\ WeaklyIncrementable(Iter2)
    /\ IndirectlyCopyable(Iter1, Iter2)

reverse_copy_viable ==
    [Iter1 \in PointerTypes, Iter2 \in PointerTypes |->
        reverse_copy_requires(Iter1, Iter2)]

\* Iter2 reverse_copy(Iter1 first, Iter1 last, Iter2 ofirst): first and
\* last are deduced as one type
reverse_copy(mem, first, last, ofirst) ==
    IF first.ty # last.ty \/ ~reverse_copy_viable[first.ty, ofirst.ty]
        THEN DoesNotCompile(mem)
    ELSE std_reverse_copy(mem, first, last, ofirst)

\* REQUIRES(BidirectionalRange<Range1> && WeaklyIncrementable<Iter2> &&
\*          IndirectlyCopyable<iterator_t<Range1>, Iter2>)
reverse_copy_Range_requires(range, I, Iter2) ==
    /\ RangeConcepts(range, I).BidirectionalRange
    /\ WeaklyIncrementable(Iter2)
    /\ IndirectlyCopyable(I, Iter2)

reverse_copy_Range_viable ==
    [Range1 \in ArrayTypes, Iter2 \in PointerTypes |->
        reverse_copy_Range_requires(Range(Range1),
                                    detected_t(iterator_t(Range1)), Iter2)]

\* Iter2 reverse_copy(Range1&& range, Iter2 ofirst) on an lvalue of type
\* Range1 that is object obj
reverse_copy_Range(mem, Range1, obj, ofirst) ==
    IF ~reverse_copy_Range_viable[Range1, ofirst.ty]
        THEN DoesNotCompile(mem)
    ELSE std_reverse_copy(mem, begin(ArrayView(Range1, obj)),
                          end(ArrayView(Range1, obj)), ofirst)

(***************************************************************************)
(* Programs that call sort, merge, accumulate or reverse_copy on int       *)
(* arrays.  Memory holds three objects: the first input array, the second  *)
(* input array (merge only) and the output array, which is filled with 0,  *)
(* has room for one element more than the call writes and overlaps no      *)
(* input.  T1 and T2 are the types of the input arrays; an input array may *)
(* be an array of const int.  The iterator form of accumulate and of       *)
(* reverse_copy is called on [a, a + last), last being 0 or the extent;    *)
(* merge is handed sorted arrays, as std::merge requires.                  *)
(***************************************************************************)
SeqValues == 1..MaxSeqVal

IntArrays(n) == [1..n -> SeqValues]

Zeros(n) == [i \in 1..n |-> 0]

Program(prog, T1, T2, mem, last, init) ==
    [prog |-> prog, T1 |-> T1, T2 |-> T2, mem |-> mem, last |-> last,
     init |-> init]

\* the output array decayed to a pointer to its first element
OutputStart == IterAt(3, 0, ElemPointer(IntArray(FALSE, 1)))

\* a + k for the input array a that is object obj of type T
InputAt(T, obj, k) == IterAt(obj, k, ElemPointer(T))

\* a sentinel for the iterators of the first input, of a type of its own
SentinelAt(k) == IterAt(1, k, TypeNamed("Sent"))

InitSeq ==
    /\ \/ \E c \in BOOLEAN, n \in 1..MaxSortLen : \E d \in IntArrays(n) :
            arg = Program("sort", IntArray(c, n), IntArray(c, n),
                          <<d, <<>>, <<>>>>, n, 0)
       \/ \E c \in BOOLEAN, n1 \in 1..MaxMergeLen, n2 \in 1..MaxMergeLen :
            \E d1 \in {d \in IntArrays(n1) : IsSorted(d)},
               d2 \in {d \in IntArrays(n2) : IsSorted(d)} :
                arg = Program("merge", IntArray(c, n1), IntArray(c, n2),
                              <<d1, d2, Zeros(n1 + n2 + 1)>>, n1, 0)
       \/ \E c \in BOOLEAN, n \in 1..MaxSeqLen, init \in 0..1 :
            \E d \in IntArrays(n), k \in {0, n} :
                arg = Program("accumulate", IntArray(c, n), IntArray(c, n),
                              <<d, <<>>, <<>>>>, k, init)
       \/ \E c \in BOOLEAN, n \in 1..MaxSeqLen :
            \E d \in IntArrays(n), k \in {0, n} :
                arg = Program("reverse_copy", IntArray(c, n), IntArray(c, n),
                              <<d, <<>>, Zeros(n + 1)>>, k, 0)
    /\ call = "declare"
    /\ ret = NoRet

\* sort(a, a + n)
Sort ==
    /\ call = "declare"
    /\ arg.prog = "sort"
    /\ \E out \in sort(arg.mem, InputAt(arg.T1, 1, 0),
                        InputAt(arg.T1, 1, arg.last)) :
          ret' = [form |-> "iterator", out |-> out]
    /\ call' = "sort"
    /\ UNCHANGED arg

\* sort(a)
SortRange ==
    /\ call = "declare"
    /\ arg.prog = "sort"
    /\ \E out \in sort_Range(arg.mem, arg.T1, 1) :
          ret' = [form |-> "range", out |-> out]
    /\ call' = "sort"
    /\ UNCHANGED arg

\* merge(a, a + n1, b, b + n2, out)
Merge ==
    /\ call = "declare"
    /\ arg.prog = "merge"
    /\ \E out \in merge(arg.mem, InputAt(arg.T1, 1, 0),
                         InputAt(arg.T1, 1, arg.T1.ext),
                         InputAt(arg.T2, 2, 0),
                         InputAt(arg.T2, 2, arg.T2.ext), OutputStart) :
          ret' = [form |-> "iterator", out |-> out]
    /\ call' = "merge"
    /\ UNCHANGED arg

\* merge(a, b, out)
MergeRange ==
    /\ call = "declare"
    /\ arg.prog = "merge"
    /\ \E out \in merge_Range(arg.mem, arg.T1, 1, arg.T2, 2, OutputStart) :
          ret' = [form |-> "range", out |-> out]
    /\ call' = "merge"
    /\ UNCHANGED arg

\* accumulate(a, a + last, init)
Accumulate ==
    /\ call = "declare"
    /\ arg.prog = "accumulate"
    /\ \E out \in accumulate(arg.mem, InputAt(arg.T1, 1, 0),
                              InputAt(arg.T1, 1, arg.last), IntT, arg.init) :
          ret' = [form |-> "iterator", out |-> out]
    /\ call' = "accumulate"
    /\ UNCHANGED arg

\* accumulate(a, init)
AccumulateRange ==
    /\ call = "declare"
    /\ arg.prog = "accumulate"
    /\ \E out \in accumulate_Range(arg.mem, arg.T1, 1, IntT, arg.init) :
          ret' = [form |-> "range", out |-> out]
    /\ call' = "accumulate"
    /\ UNCHANGED arg

\* reverse_copy(a, a + last, out)
ReverseCopy ==
    /\ call = "declare"
    /\ arg.prog = "reverse_copy"
    /\ \E out \in reverse_copy(arg.mem, InputAt(arg.T1, 1, 0),
                                InputAt(arg.T1, 1, arg.last), OutputStart) :
          ret' = [form |-> "iterator", out |-> out]
    /\ call' = "reverse_copy"
    /\ UNCHANGED arg

\* reverse_copy(a, out)
ReverseCopyRange ==
    /\ call = "declare"
    /\ arg.prog = "reverse_copy"
    /\ \E out \in reverse_copy_Range(arg.mem, arg.T1, 1, OutputStart) :
          ret' = [form |-> "range", out |-> out]
    /\ call' = "reverse_copy"
    /\ UNCHANGED arg

\* reverse_copy(a, sentinel(a + last), out)
ReverseCopySentinel ==
    /\ call = "declare"
    /\ arg.prog = "reverse_copy"
    /\ \E out \in reverse_copy(arg.mem, InputAt(arg.T1, 1, 0),
                                SentinelAt(arg.last), OutputStart) :
          ret' = [form |-> "sentinel", out |-> out]
    /\ call' = "reverse_copy"
    /\ UNCHANGED arg

NextSeq ==
    \/ Sort \/ SortRange
    \/ Merge \/ MergeRange
    \/ Accumulate \/ AccumulateRange
    \/ ReverseCopy \/ ReverseCopyRange \/ ReverseCopySentinel

SpecSeq == InitSeq /\ [][NextSeq]_vars

\* the first n elements of the output array after the call
OutputPrefix(n) == SubSeq(ret.out.mem[3], 1, n)

\* the elements of the input [a, a + arg.last) before the call
InputPrefix == SubSeq(arg.mem[1], 1, arg.last)

(***************************************************************************)
(* C16: the range form of sort with the default comparator, called on an   *)
(* array of int, compiles, returns void and leaves the array holding the   *)
(* elements it held, in non-decreasing order; {4,2,5,1,3} becomes          *)
(* {1,2,3,4,5}.                                                            *)
(***************************************************************************)
C16_SortRangeSorts ==
    (call = "sort" /\ ret.form = "range" /\ ~arg.T1.c) =>
        /\ ret.out.compiles
        /\ ~ret.out.ub
        /\ ret.out.result = "void"
        /\ IsSorted(ret.out.mem[1])
        /\ IsRearrangementOf(ret.out.mem[1], arg.mem[1])
        /\ (arg.mem[1] = <<4, 2, 5, 1, 3>>
                => ret.out.mem[1] = <<1, 2, 3, 4, 5>>)

C16_Witness ==
    /\ call = "sort"
    /\ ret.form = "range"
    /\ ~arg.T1.c
    /\ arg.mem[1] = <<4, 2, 5, 1, 3>>
    /\ ret.out.compiles
    /\ ret.out.mem[1] = <<1, 2, 3, 4, 5>>

(***************************************************************************)
(* C17: merge with the default comparator over two sorted int arrays of n1 *)
(* and n2 elements compiles, writes the n1 + n2 elements of both, in       *)
(* non-decreasing order, to the first n1 + n2 positions of the output,     *)
(* writes nothing after them and leaves both inputs as they were;          *)
(* {1,3,5} and {2,3,4} give {1,2,3,3,4,5}.                                 *)
(***************************************************************************)
C17_MergeSortedUnion ==
    call = "merge" =>
        /\ ret.out.compiles
        /\ ~ret.out.ub
        /\ IsSorted(OutputPrefix(arg.T1.ext + arg.T2.ext))
        /\ IsRearrangementOf(OutputPrefix(arg.T1.ext + arg.T2.ext),
                             arg.mem[1] \o arg.mem[2])
        /\ ret.out.mem[3][arg.T1.ext + arg.T2.ext + 1] = 0
        /\ ret.out.mem[1] = arg.mem[1]
        /\ ret.out.mem[2] = arg.mem[2]
        /\ ((arg.mem[1] = <<1, 3, 5>> /\ arg.mem[2] = <<2, 3, 4>>)
                => OutputPrefix(6) = <<1, 2, 3, 3, 4, 5>>)

C17_Witness ==
    /\ call = "merge"
    /\ arg.mem[1] = <<1, 3, 5>>
    /\ arg.mem[2] = <<2, 3, 4>>
    /\ ret.out.compiles
    /\ ret.out.mem[3] = <<1, 2, 3, 3, 4, 5, 0>>

(***************************************************************************)
(* C18: accumulate over an int range with an int initial value and the     *)
(* default operation compiles and returns the initial value plus the sum   *)
(* of the elements, having read each position of the range once, in order, *)
(* and leaves the range as it was; over an empty range it returns the      *)
(* initial value.                                                          *)
(***************************************************************************)
C18_AccumulateReturnsSum ==
    call = "accumulate" =>
        LET n == IF ret.form = "range" THEN arg.T1.ext ELSE arg.last IN
        /\ ret.out.compiles
        /\ ~ret.out.ub
        /\ ret.out.result.value = arg.init + SumOf(SubSeq(arg.mem[1], 1, n))
        /\ ret.out.result.reads = [i \in 1..n |-> i]
        /\ ret.out.mem = arg.mem

\* accumulate(v, 0) on int v[] = {1, 2, 3, 4} is rejected
C18_Witness ==
    /\ call = "accumulate"
    /\ ret.form = "range"
    /\ ~arg.T1.c
    /\ arg.mem[1] = <<1, 2, 3, 4>>
    /\ arg.init = 0
    /\ ~ret.out.compiles

(***************************************************************************)
(* C19: reverse_copy of an input of n elements, in its iterator-pair form  *)
(* and in its range form, writes the input in reverse order to the first n *)
(* positions of the output, leaves the input as it was and returns a       *)
(* result whose member in is the end of the input and whose member out is  *)
(* the output start advanced by n (for an empty input: the output is       *)
(* untouched, in is the input start and out the output start).             *)
(***************************************************************************)
C19_ReverseCopyResult ==
    (call = "reverse_copy" /\ ret.form \in {"iterator", "range"}) =>
        LET n == IF ret.form = "range" THEN arg.T1.ext ELSE arg.last IN
        /\ ret.out.compiles
        /\ ~ret.out.ub
        /\ OutputPrefix(n) = Reversed(SubSeq(arg.mem[1], 1, n))
        /\ \A i \in DOMAIN arg.mem[3] :
                i > n => ret.out.mem[3][i] = arg.mem[3][i]
        /\ ret.out.mem[1] = arg.mem[1]
        /\ DOMAIN ret.out.result = {"in", "out"}
        /\ ret.out.result.in = InputAt(arg.T1, 1, n)
        /\ ret.out.result.out = Advanced(OutputStart, n)

\* the input is copied in reverse and what is returned is an iterator, with
\* no member in
C19_Witness ==
    /\ call = "reverse_copy"
    /\ ret.form = "iterator"
    /\ arg.last >= 2
    /\ ret.out.compiles
    /\ OutputPrefix(arg.last) = Reversed(InputPrefix)
    /\ OutputPrefix(arg.last) # InputPrefix
    /\ ret.out.result = Advanced(OutputStart, arg.last)
    /\ "in" \notin DOMAIN ret.out.result

(***************************************************************************)
(* C20: reverse_copy called with a bidirectional iterator and a sentinel   *)
(* of another type compiles and gives the output and the returned          *)
(* positions that the call with the end given as an iterator gives.        *)
(***************************************************************************)
C20_SentinelAccepted ==
    (call = "reverse_copy" /\ ret.form = "sentinel") =>
        /\ ret.out.compiles
        /\ ret.out \in reverse_copy(arg.mem, InputAt(arg.T1, 1, 0),
                                    InputAt(arg.T1, 1, arg.last), OutputStart)

\* the call with a sentinel is rejected where the call with an iterator
\* is accepted
C20_Witness ==
    /\ call = "reverse_copy"
    /\ ret.form = "sentinel"
    /\ arg.last >= 1
    /\ ~ret.out.compiles
    /\ \E o \in reverse_copy(arg.mem, InputAt(arg.T1, 1, 0),
                              InputAt(arg.T1, 1, arg.last), OutputStart) :
            o.compiles

(***************************************************************************)
(* ostreambuf_iterator.  arg is the stream buffer the iterator is          *)
(* constructed over (none for the default constructor) and how many        *)
(* characters it has room for; ret is the iterator and the buffer:         *)
(*   failed_  the iterator's flag                                          *)
(*   put      the characters the stream buffer has accepted                *)
(*   ops      how many operations have been applied                        *)
(*   crashed  the program dereferenced the null sbuf_ and stopped          *)
(* sputc stores the character and returns it, or returns eof: always when  *)
(* the buffer has no room, and possibly at any other time.                 *)
(***************************************************************************)
Chars == {"a", "b"}

eof == "eof"

\* the results sbuf_->sputc(c) can have on a buffer holding put: the value
\* returned and what the buffer holds afterwards
sputc(cap, put, c) ==
    {[returns |-> eof, put |-> put]}
    \cup (IF Len(put) < cap THEN {[returns |-> c, put |-> Append(put, c)]}
          ELSE {})

\* operator= without the test of failed()
operator_assign_Unguarded(sbuf, cap, it, c) ==
    IF sbuf = "null"
        THEN {[it EXCEPT !.crashed = TRUE]}
             \cup {[it EXCEPT !.failed_ = f] : f \in BOOLEAN}
    ELSE {[it EXCEPT !.failed_ = (r.returns = eof), !.put = r.put] :
            r \in sputc(cap, it.put, c)}

\* ostreambuf_iterator& operator=(char_type c); calling sputc through a
\* null sbuf_ is undefined: the program stops, or goes on with any flag
operator_assign(sbuf, cap, it, c) ==
    IF it.failed_ THEN {it}
    ELSE IF sbuf = "null"
        THEN {[it EXCEPT !.crashed = TRUE]}
             \cup {[it EXCEPT !.failed_ = f] : f \in BOOLEAN}
    ELSE {[it EXCEPT !.failed_ = (r.returns = eof), !.put = r.put] :
            r \in sputc(cap, it.put, c)}

\* operator*(), operator++() and operator++(int) return *this
operator_star(it) == it

operator_preinc(it) == it

operator_postinc(it) == it

\* bool failed() const noexcept
failed(it) == it.failed_

\* the three constructors: sbuf_ is null, s.rdbuf() or s; failed_ is false
InitStreambuf ==
    /\ \E sbuf \in {"null", "streambuf"}, cap \in 0..MaxCapacity :
            arg = [sbuf |-> sbuf, cap |-> cap]
    /\ call = "construct"
    /\ ret = [failed_ |-> FALSE, put |-> <<>>, ops |-> 0, crashed |-> FALSE]

Applied(it) == [it EXCEPT !.ops = it.ops + 1]

Assign ==
    /\ ~ret.crashed /\ ret.ops < MaxOps
    /\ \E c \in Chars :
          \E it \in operator_assign(arg.sbuf, arg.cap, ret, c) :
              ret' = Applied(it)
    /\ call' = "operator="
    /\ UNCHANGED arg

Dereference ==
    /\ ~ret.crashed /\ ret.ops < MaxOps
    /\ ret' = Applied(operator_star(ret))
    /\ call' = "operator*"
    /\ UNCHANGED arg

PreIncrement ==
    /\ ~ret.crashed /\ ret.ops < MaxOps
    /\ ret' = Applied(operator_preinc(ret))
    /\ call' = "operator++"
    /\ UNCHANGED arg

PostIncrement ==
    /\ ~ret.crashed /\ ret.ops < MaxOps
    /\ ret' = Applied(operator_postinc(ret))
    /\ call' = "operator++(int)"
    /\ UNCHANGED arg

NextStreambuf == Assign \/ Dereference \/ PreIncrement \/ PostIncrement

SpecStreambuf == InitStreambuf /\ [][NextStreambuf]_vars

(***************************************************************************)
(* C25: failure of an ostreambuf_iterator is sticky.  failed() is false on *)
(* construction; an assignment made while failed() is false whose sputc    *)
(* returns eof makes failed() true; once failed() is true it stays true    *)
(* whatever is applied next, and an assignment writes nothing to the       *)
(* stream buffer; dereference and increment never change failed().         *)
(***************************************************************************)
C25_FailureIsSticky ==
    /\ (call = "construct" => ~failed(ret))
    /\ [][/\ failed(ret) => (failed(ret') /\ ret'.put = ret.put)
          /\ (call' # "operator=") =>
                (failed(ret') = failed(ret) /\ ret'.put = ret.put)
          /\ (/\ call' = "operator="
              /\ arg.sbuf = "streambuf"
              /\ ~failed(ret)
              /\ ret'.put = ret.put)
                => failed(ret')]_vars

\* a character was written, a later assignment failed, and an assignment,
\* a dereference or an increment has been applied since
C25_Witness ==
    /\ failed(ret)
    /\ Len(ret.put) >= 1
    /\ Len(ret.put) < arg.cap
    /\ ret.ops >= Len(ret.put) + 2
    /\ call = "operator="

(***************************************************************************)
(* The algorithms the header writes itself, as loops over two ranges:      *)
(* swap_ranges, transform and inner_product, each stopping at the end of   *)
(* the shorter range.  A loop is computed step by step; besides what the   *)
(* function returns, steps counts its iterations and touched collects the  *)
(* positions (object, index) it dereferences.                              *)
(***************************************************************************)
\* the element an iterator points at
Deref(mem, it) == mem[it.obj][it.idx + 1]

Assigned(mem, it, v) == [mem EXCEPT ![it.obj][it.idx + 1] = v]

\* ++it
Incremented(it) == IterAt(it.obj, it.idx + 1, it.ty)

Position(it) == <<it.obj, it.idx>>

\* std::iter_swap(first1, first2)
iter_swap(mem, a, b) == Assigned(Assigned(mem, a, Deref(mem, b)), b, Deref(mem, a))

\* while (first1 != last1 && first2 != last2) {
\*     std::iter_swap(first1, first2); ++first1; ++first2; }
\* return std::make_pair(first1, first2);
RECURSIVE swap_ranges_loop(_, _, _, _, _, _, _)
swap_ranges_loop(mem, first1, last1, first2, last2, steps, touched) ==
    IF first1 # last1 /\ first2 # last2
        THEN swap_ranges_loop(iter_swap(mem, first1, first2),
                              Incremented(first1), last1, Incremented(first2), last2,
                              steps + 1,
                              touched \cup {Position(first1), Position(first2)})
    ELSE Outcome(TRUE, FALSE,
                 [value |-> <<first1, first2>>, steps |-> steps,
                  touched |-> touched],
                 mem)

\* REQUIRES(ForwardIterator<Iter1> && ForwardIterator<Iter2> &&
\*          IndirectlySwappable<Iter1, Iter2>)
swap_ranges_requires(Iter1, Iter2) ==
    /\ ForwardIterator(Iter1)
    /\ ForwardIterator(Iter2)
    /\ IndirectlySwappable(Iter1, Iter2)

swap_ranges_viable ==
    [Iter1 \in PointerTypes, Iter2 \in PointerTypes |->
        swap_ranges_requires(Iter1, Iter2)]

\* swap_ranges as the deprecated three-iterator form runs: the loop stops at
\* the end of the first range only
swap_ranges_FirstRangeOnly(mem, first1, last1, first2, last2) ==
    IF \/ first1.ty # last1.ty
       \/ first2.ty # last2.ty
       \/ ~swap_ranges_viable[first1.ty, first2.ty]
       \/ first1.ty.pointee.c
       \/ first2.ty.pointee.c
        THEN DoesNotCompile(mem)
    ELSE {swap_ranges_loop(mem, first1, last1, first2,
                           [last2 EXCEPT !.idx = -1], 0, {})}

\* std::pair<Iter1, Iter2> swap_ranges(Iter1 first1, Iter1 last1,
\*                                     Iter2 first2, Iter2 last2);
\* std::iter_swap through a pointer to const is ill-formed in the body
swap_ranges(mem, first1, last1, first2, last2) ==
    IF \/ first1.ty # last1.ty
       \/ first2.ty # last2.ty
       \/ ~swap_ranges_viable[first1.ty, first2.ty]
       \/ first1.ty.pointee.c
       \/ first2.ty.pointee.c
        THEN DoesNotCompile(mem)
    ELSE {swap_ranges_loop(mem, first1, last1, first2, last2, 0, {})}

BinOps == {"std::plus<>", "std::multiplies<>"}

\* op(x, y)
Apply(op, x, y) == IF op = "std::plus<>" THEN x + y ELSE x * y

\* indirect_result_of_t<BinOp&(Iter1, Iter2)>: the type of
\* op(*first1, *first2), when BinOp& is callable with both reference types
indirect_result_of_t(BinOp, Iter1, Iter2) ==
    IF /\ BinOp \in BinOps
       /\ remove_cvref_t(reference_t(Iter1)) = IntT
       /\ remove_cvref_t(reference_t(Iter2)) = IntT
        THEN IntT
    ELSE nonesuch

\* CopyConstructible<BinOp> of a function object type
CopyConstructible_F(BinOp) == BinOp \in BinOps

\* while (first1 != last1 && first2 != last2) {
\*     *ofirst = op(*first1, *first2); ++ofirst; ++first1; ++first2; }
\* return std::move(ofirst);
RECURSIVE transform_loop(_, _, _, _, _, _, _, _, _)
transform_loop(mem, first1, last1, first2, last2, ofirst, op, steps, touched) ==
    IF first1 # last1 /\ first2 # last2
        THEN transform_loop(Assigned(mem, ofirst,
                                     Apply(op, Deref(mem, first1),
                                           Deref(mem, first2))),
                            Incremented(first1), last1, Incremented(first2), last2,
                            Incremented(ofirst), op, steps + 1,
                            touched \cup {Position(first1), Position(first2),
                                          Position(ofirst)})
    ELSE Outcome(TRUE, FALSE,
                 [value |-> ofirst, steps |-> steps, touched |-> touched],
                 mem)

\* REQUIRES(InputIterator<Iter1> && InputIterator<Iter2> &&
\*          WeaklyIncrementable<Iter3> && CopyConstructible<BinOp> &&
\*          Writable<Iter3, indirect_result_of_t<BinOp&(Iter1, Iter2)>>)
transform_requires(Iter1, Iter2, Iter3, BinOp) ==
    /\ InputIterator(Iter1)
    /\ InputIterator(Iter2)
    /\ WeaklyIncrementable(Iter3)
    /\ CopyConstructible_F(BinOp)
    /\ Writable(Iter3, indirect_result_of_t(BinOp, Iter1, Iter2))

transform_viable ==
    [Iter1 \in PointerTypes, Iter2 \in PointerTypes, Iter3 \in PointerTypes,
     BinOp \in BinOps |-> transform_requires(Iter1, Iter2, Iter3, BinOp)]

\* transform as the deprecated five-parameter form runs: the loop stops at
\* the end of the first range only
transform_FirstRangeOnly(mem, first1, last1, first2, last2, ofirst, op) ==
    IF \/ first1.ty # last1.ty
       \/ first2.ty # last2.ty
       \/ ~transform_viable[first1.ty, first2.ty, ofirst.ty, op]
        THEN DoesNotCompile(mem)
    ELSE {transform_loop(mem, first1, last1, first2,
                         [last2 EXCEPT !.idx = -1], ofirst, op, 0, {})}

\* Iter3 transform(Iter1 first1, Iter1 last1, Iter2 first2, Iter2 last2,
\*                 Iter3 ofirst, BinOp op)
transform(mem, first1, last1, first2, last2, ofirst, op) ==
    IF \/ first1.ty # last1.ty
       \/ first2.ty # last2.ty
       \/ ~transform_viable[first1.ty, first2.ty, ofirst.ty, op]
        THEN DoesNotCompile(mem)
    ELSE {transform_loop(mem, first1, last1, first2, last2, ofirst, op, 0, {})}

\* while (first1 != last1 && first2 != last2) {
\*     value = op1(value, op2(*first1, *first2)); ++first1; ++first2; }
\* return value;
RECURSIVE inner_product_loop(_, _, _, _, _, _, _, _)
inner_product_loop(mem, first1, last1, first2, last2, value, steps, touched) ==
    IF first1 # last1 /\ first2 # last2
        THEN inner_product_loop(mem, Incremented(first1), last1, Incremented(first2), last2,
                                Apply("std::plus<>", value,
                                      Apply("std::multiplies<>",
                                            Deref(mem, first1),
                                            Deref(mem, first2))),
                                steps + 1,
                                touched \cup {Position(first1),
                                              Position(first2)})
    ELSE Outcome(TRUE, FALSE,
                 [value |-> value, steps |-> steps, touched |-> touched],
                 mem)

\* std::inner_product(first1, last1, first2, value): one step for each
\* element of [first1, last1); reading past the end of the second array is
\* undefined and yields any value
std_inner_product(mem, first1, last1, first2, value) ==
    IF first2.idx + (last1.idx - first1.idx) > Len(mem[first2.obj])
        THEN {Outcome(TRUE, TRUE,
                      [value |-> v, steps |-> last1.idx - first1.idx,
                       touched |-> {}], mem) :
                v \in 0..(value + MaxPairLen * MaxPairVal * MaxPairVal)}
    ELSE {inner_product_loop(mem, first1, last1, first2,
                             Advanced(first2, last1.idx - first1.idx),
                             value, 0, {})}

\* REQUIRES(InputIterator<InputIt1> && InputIterator<InputIt2> &&
\*     std::is_assignable<T, std::result_of_t<BinOp1&(T, std::result_of_t<
\*         BinOp2&(value_type_t<InputIt1>, value_type_t<InputIt2>)>)>>::value)
inner_product_requires(InputIt1, InputIt2, T) ==
    /\ InputIterator(InputIt1)
    /\ InputIterator(InputIt2)
    /\ Assignable(T, plus_result_of_t(T,
                        plus_result_of_t(value_type_t(InputIt1),
                                         value_type_t(InputIt2))))

inner_product_viable ==
    [InputIt1 \in PointerTypes, InputIt2 \in PointerTypes, T \in {IntT} |->
        inner_product_requires(InputIt1, InputIt2, T)]

\* T inner_product(InputIt1 first1, InputIt1 last1, InputIt2 first2,
\*                 T value, BinOp1 op1 = {}, BinOp2 op2 = {}), deprecated
inner_product_3(mem, first1, last1, first2, T, value) ==
    IF first1.ty # last1.ty \/ ~inner_product_viable[first1.ty, first2.ty, T]
        THEN DoesNotCompile(mem)
    ELSE std_inner_product(mem, first1, last1, first2, value)

\* T inner_product(InputIt1 first1, InputIt1 last1, InputIt2 first2,
\*                 InputIt2 last2, T value, BinOp1 op1 = {}, BinOp2 op2 = {})
inner_product(mem, first1, last1, first2, last2, T, value) ==
    IF \/ first1.ty # last1.ty
       \/ first2.ty # last2.ty
       \/ ~inner_product_viable[first1.ty, first2.ty, T]
        THEN DoesNotCompile(mem)
    ELSE {inner_product_loop(mem, first1, last1, first2, last2, value, 0, {})}

(***************************************************************************)
(* Programs that call swap_ranges, transform or inner_product on           *)
(* [a, a + last1) and [b, b + last2), a and b being int arrays of          *)
(* MaxPairLen elements (a possibly an array of const int) that are objects *)
(* 1 and 2 of memory; object 3 is the output array of transform, filled    *)
(* with 0 and one element longer than the inputs.                          *)
(***************************************************************************)
PairValues == 1..MaxPairVal

PairArrays == [1..MaxPairLen -> PairValues]

PairProgram(prog, c, mem, last1, last2, op, init) ==
    [prog |-> prog, T1 |-> IntArray(c, MaxPairLen),
     T2 |-> IntArray(FALSE, MaxPairLen), mem |-> mem,
     last1 |-> last1, last2 |-> last2, op |-> op, init |-> init]

InitPair ==
    /\ \E d1 \in PairArrays, d2 \in PairArrays,
          k1 \in 0..MaxPairLen, k2 \in 0..MaxPairLen :
          \/ \E c \in BOOLEAN :
                arg = PairProgram("swap_ranges", c, <<d1, d2, <<>>>>, k1, k2,
                                  "none", 0)
          \/ \E c \in BOOLEAN, op \in BinOps :
                arg = PairProgram("transform", c,
                                  <<d1, d2, Zeros(MaxPairLen + 1)>>, k1, k2,
                                  op, 0)
          \/ \E init \in 0..1 :
                arg = PairProgram("inner_product", FALSE, <<d1, d2, <<>>>>,
                                  k1, k2, "none", init)
    /\ call = "declare"
    /\ ret = NoRet

\* swap_ranges(a, a + last1, b, b + last2)
SwapRanges ==
    /\ call = "declare"
    /\ arg.prog = "swap_ranges"
    /\ \E out \in swap_ranges(arg.mem, InputAt(arg.T1, 1, 0),
                               InputAt(arg.T1, 1, arg.last1),
                               InputAt(arg.T2, 2, 0),
                               InputAt(arg.T2, 2, arg.last2)) :
          ret' = [form |-> "iterator", out |-> out]
    /\ call' = "swap_ranges"
    /\ UNCHANGED arg

\* transform(a, a + last1, b, b + last2, out, op)
Transform ==
    /\ call = "declare"
    /\ arg.prog = "transform"
    /\ \E out \in transform(arg.mem, InputAt(arg.T1, 1, 0),
                             InputAt(arg.T1, 1, arg.last1),
                             InputAt(arg.T2, 2, 0),
                             InputAt(arg.T2, 2, arg.last2),
                             OutputStart, arg.op) :
          ret' = [form |-> "iterator", out |-> out]
    /\ call' = "transform"
    /\ UNCHANGED arg

\* inner_product(a, a + last1, b, b + last2, init)
InnerProduct ==
    /\ call = "declare"
    /\ arg.prog = "inner_product"
    /\ \E out \in inner_product(arg.mem, InputAt(arg.T1, 1, 0),
                                 InputAt(arg.T1, 1, arg.last1),
                                 InputAt(arg.T2, 2, 0),
                                 InputAt(arg.T2, 2, arg.last2),
                                 IntT, arg.init) :
          ret' = [form |-> "iterator", out |-> out]
    /\ call' = "inner_product"
    /\ UNCHANGED arg

\* inner_product(a, a + last1, b, init)
InnerProductDeprecated ==
    /\ call = "declare"
    /\ arg.prog = "inner_product"
    /\ \E out \in inner_product_3(arg.mem, InputAt(arg.T1, 1, 0),
                                   InputAt(arg.T1, 1, arg.last1),
                                   InputAt(arg.T2, 2, 0), IntT, arg.init) :
          ret' = [form |-> "deprecated", out |-> out]
    /\ call' = "inner_product"
    /\ UNCHANGED arg

NextPair == SwapRanges \/ Transform \/ InnerProduct \/ InnerProductDeprecated

SpecPair == InitPair /\ [][NextPair]_vars

Min(a, b) == IF a < b THEN a ELSE b

\* how many elements the shorter of the two input ranges has
Shorter == Min(arg.last1, arg.last2)

(***************************************************************************)
(* C26: the four-iterator swap_ranges over ranges of int of lengths n1 and *)
(* n2 compiles and takes exactly min(n1, n2) steps; it exchanges element i *)
(* of the first range with element i of the second for every               *)
(* i < min(n1, n2), leaves every other element of either array as it was,  *)
(* returns (first1 + min(n1, n2), first2 + min(n1, n2)) and dereferences   *)
(* no position at or after either end.                                     *)
(***************************************************************************)
C26_SwapRangesShorter ==
    (call = "swap_ranges" /\ ~arg.T1.c) =>
        /\ ret.out.compiles
        /\ ~ret.out.ub
        /\ ret.out.result.steps = Shorter
        /\ \A i \in 1..MaxPairLen :
              /\ ret.out.mem[1][i] =
                    IF i <= Shorter THEN arg.mem[2][i] ELSE arg.mem[1][i]
              /\ ret.out.mem[2][i] =
                    IF i <= Shorter THEN arg.mem[1][i] ELSE arg.mem[2][i]
        /\ ret.out.result.value =
              <<InputAt(arg.T1, 1, Shorter), InputAt(arg.T2, 2, Shorter)>>
        /\ \A q \in ret.out.result.touched :
              /\ q[1] = 1 => q[2] < arg.last1
              /\ q[1] = 2 => q[2] < arg.last2

\* ranges of different lengths holding different elements were exchanged up
\* to the end of the shorter one
C26_Witness ==
    /\ call = "swap_ranges"
    /\ ret.out.compiles
    /\ arg.last1 > arg.last2
    /\ arg.last2 >= 2
    /\ ret.out.mem[1] # arg.mem[1]
    /\ ret.out.mem[1][arg.last2] = arg.mem[2][arg.last2]
    /\ ret.out.result.steps = arg.last2

(***************************************************************************)
(* C27: the two-range transform over inputs of lengths n1 and n2 compiles  *)
(* and takes min(n1, n2) steps; it writes op(a[i], b[i]) to output         *)
(* position i for every i < min(n1, n2) and to no other position, leaves   *)
(* both inputs as they were and returns ofirst advanced by min(n1, n2).    *)
(***************************************************************************)
C27_TransformShorter ==
    call = "transform" =>
        /\ ret.out.compiles
        /\ ~ret.out.ub
        /\ ret.out.result.steps = Shorter
        /\ \A i \in DOMAIN arg.mem[3] :
              ret.out.mem[3][i] =
                IF i <= Shorter
                    THEN Apply(arg.op, arg.mem[1][i], arg.mem[2][i])
                ELSE arg.mem[3][i]
        /\ ret.out.mem[1] = arg.mem[1]
        /\ ret.out.mem[2] = arg.mem[2]
        /\ ret.out.result.value = Advanced(OutputStart, Shorter)

\* inputs of different lengths: the output holds a product for each element
\* of the shorter input and is untouched after them
C27_Witness ==
    /\ call = "transform"
    /\ ret.out.compiles
    /\ arg.op = "std::multiplies<>"
    /\ arg.last1 < arg.last2
    /\ arg.last1 >= 2
    /\ ret.out.mem[3][arg.last1] = arg.mem[1][arg.last1] * arg.mem[2][arg.last1]
    /\ ret.out.mem[3][arg.last1] >= 2
    /\ ret.out.mem[3][arg.last1 + 1] = 0
    /\ ret.out.result.value = Advanced(OutputStart, arg.last1)

\* init + a[0] * b[0] + ... + a[n - 1] * b[n - 1]
RECURSIVE Folded(_, _, _, _)
Folded(init, a, b, n) ==
    IF n = 0 THEN init ELSE Folded(init, a, b, n - 1) + a[n] * b[n]

(***************************************************************************)
(* C28: the four-iterator inner_product over int inputs of lengths n1 and  *)
(* n2 with an int initial value compiles and returns the initial value     *)
(* folded left with + over a[i] * b[i] for i < min(n1, n2), in             *)
(* min(n1, n2) steps; when n2 >= n1 the deprecated three-iterator form     *)
(* compiles and returns the same.                                          *)
(***************************************************************************)
C28_InnerProductShorter ==
    call = "inner_product" =>
        /\ ret.out.compiles
        /\ (ret.form = "iterator" => ret.out.result.steps = Shorter)
        /\ (ret.form = "iterator" \/ arg.last2 >= arg.last1) =>
              /\ ~ret.out.ub
              /\ ret.out.result.value =
                    Folded(arg.init, arg.mem[1], arg.mem[2], Shorter)

\* inner_product(a, a + 3, b, b + 2, 0) is rejected
C28_Witness ==
    /\ call = "inner_product"
    /\ ret.form = "iterator"
    /\ arg.last1 = 3 /\ arg.last2 = 2
    /\ arg.init = 0
    /\ ~ret.out.compiles

(***************************************************************************)
(* views::counted, as the test of the repository uses it.  Its header      *)
(* (nanorange/views/counted.hpp) defines counted(it, n) as                 *)
(* subrange(it, it + n) when it is a random-access iterator and as         *)
(* subrange(counted_iterator(it, n), default_sentinel) otherwise.  The     *)
(* iterator types are int* and the iterator archetypes of                  *)
(* test_iterators.hpp, which wrap an int* and offer the operations of one  *)
(* category only.                                                          *)
(***************************************************************************)
CountedIterators ==
    {"int*", "random_access_iterator<int*>", "bidirectional_iterator<int*>",
     "forward_iterator<int*>"}

\* the strongest iterator concept a type satisfies, as a number:
\* 1 forward, 2 bidirectional, 3 random access; 0 for a type that is no
\* iterator
RECURSIVE Strength(_)
Strength(I) ==
    CASE I.name = "int*" -> 3
      [] I.name = "random_access_iterator<int*>" -> 3
      [] I.name = "bidirectional_iterator<int*>" -> 2
      [] I.name = "forward_iterator<int*>" -> 1
      [] I.name = "counted_iterator" -> Strength(I.base)
      [] OTHER -> 0

NamedType(name) == [name |-> name]

default_sentinel_t == NamedType("default_sentinel_t")

\* counted_iterator<I>: an iterator of I's category that carries the number of
\* elements left
counted_iterator_t(I) == [name |-> "counted_iterator", base |-> I]

random_access_iterator(I) == Strength(I) >= 3

bidirectional_iterator(I) == Strength(I) >= 2

forward_iterator(I) == Strength(I) >= 1

\* sized_sentinel_for<S, I>: s - i is defined; for two random-access iterators
\* of one type, and for default_sentinel against a counted_iterator
sized_sentinel_for(S, I) ==
    \/ S = I /\ random_access_iterator(I)
    \/ S = default_sentinel_t /\ I.name = "counted_iterator"

\* subrange<I, S>
subrange_t(I, S) == [name |-> "subrange", I |-> I, S |-> S]

view(R) == R.name = "subrange"

common_range(R) == view(R) /\ R.I = R.S

sized_range(R) == view(R) /\ sized_sentinel_for(R.S, R.I)

forward_range(R) == view(R) /\ forward_iterator(R.I)

bidirectional_range(R) == view(R) /\ bidirectional_iterator(R.I)

random_access_range(R) == view(R) /\ random_access_iterator(R.I)

\* decltype(views::counted(it, n)) with every iterator wrapped in a
\* counted_iterator
counted_t_AlwaysCountedIterator(I) ==
    subrange_t(counted_iterator_t(I), default_sentinel_t)

\* decltype(views::counted(it, n))
counted_t(I) ==
    IF random_access_iterator(I) THEN subrange_t(I, I)
    ELSE subrange_t(counted_iterator_t(I), default_sentinel_t)

\* an iterator value: base iterators hold a position in the array; a
\* counted_iterator holds the position and the count left
Pos(ty, at) == [ty |-> ty, at |-> at, left |-> 0]

CountedPos(ty, at, left) == [ty |-> ty, at |-> at, left |-> left]

DefaultSentinel == [ty |-> default_sentinel_t, at |-> 0, left |-> 0]

\* views::counted(it, n) ending one element late
counted_OneMore(I, it, n) ==
    IF random_access_iterator(I)
        THEN [ty |-> counted_t(I), first |-> Pos(I, it), last |-> Pos(I, it + n + 1)]
    ELSE [ty |-> counted_t(I),
          first |-> CountedPos(counted_iterator_t(I), it, n + 1),
          last |-> DefaultSentinel]

\* views::counted(it, n)
counted(I, it, n) ==
    IF random_access_iterator(I)
        THEN [ty |-> counted_t(I), first |-> Pos(I, it), last |-> Pos(I, it + n)]
    ELSE [ty |-> counted_t(I),
          first |-> CountedPos(counted_iterator_t(I), it, n),
          last |-> DefaultSentinel]

\* i == s: two iterators at one position, or a counted_iterator with nothing
\* left against default_sentinel
AtEnd(i, s) ==
    IF s.ty = default_sentinel_t THEN i.left = 0 ELSE i.at = s.at

\* ++i
Stepped(i) ==
    IF i.ty.name = "counted_iterator"
        THEN CountedPos(i.ty, i.at + 1, i.left - 1)
    ELSE Pos(i.ty, i.at + 1)

CountedArrays == [1..MaxCountedLen -> 0..MaxCountedVal]

\* int rg[] = {...}; auto x = views::counted(I(rg + from), n); with at least
\* n elements from rg + from on
InitCounted ==
    /\ \E I \in CountedIterators, rg \in CountedArrays,
          from \in 0..MaxCountedLen, n \in 0..MaxCountedLen :
          /\ from + n <= MaxCountedLen
          /\ arg = [I |-> NamedType(I), rg |-> rg, from |-> from, n |-> n]
    /\ call = "declare"
    /\ ret = NoRet

\* auto x = views::counted(it, n); auto i = x.begin();
Counted ==
    /\ call = "declare"
    /\ "I" \in DOMAIN arg
    /\ LET x == counted(arg.I, arg.from, arg.n)
       IN ret' = [x |-> x, i |-> x.first, seen |-> <<>>]
    /\ call' = "counted"
    /\ UNCHANGED arg

\* one round of check_equal's loop: if (i != x.end()) { read *i; ++i; }
CheckNext ==
    /\ call = "counted"
    /\ ~AtEnd(ret.i, ret.x.last)
    /\ ret.i.at < MaxCountedLen + 1
    /\ ret' = [ret EXCEPT
                  !.seen = Append(@, IF ret.i.at < MaxCountedLen
                                         THEN arg.rg[ret.i.at + 1] ELSE -1),
                  !.i = Stepped(@)]
    /\ UNCHANGED <<arg, call>>

\* i == x.end(): check_equal has read the whole view
CheckDone ==
    /\ call = "counted"
    /\ AtEnd(ret.i, ret.x.last)
    /\ call' = "checked"
    /\ UNCHANGED <<arg, ret>>

NextCounted == Counted \/ CheckNext \/ CheckDone

SpecCounted == InitCounted /\ [][NextCounted]_vars

\* the iterator is a pointer or a forward-only iterator
PointerOrForwardOnly ==
    arg.I.name \in {"int*", "forward_iterator<int*>"}

RangeType(kind, ref, strength, sized, common, constrange) ==
    [kind |-> kind, ref |-> ref, strength |-> strength, sized |-> sized,
     common |-> common, constrange |-> constrange, c |-> FALSE]

NotARange == [kind |-> "int", ref |-> "", strength |-> 0, sized |-> FALSE,
              common |-> FALSE, constrange |-> FALSE, c |-> FALSE]

\* a random-access range whose begin and end have one type is sized, since
\* the two can be subtracted
ViewLayerTypes ==
    {NotARange} \cup
    {T \in {RangeType(kind, ref, strength, sized, common, constrange) :
                kind \in {"view", "container"}, ref \in {"", "&"},
                strength \in 0..3, sized \in BOOLEAN, common \in BOOLEAN,
                constrange \in BOOLEAN} :
        (T.strength = 3 /\ T.common) => T.sized}

\* Range<T>; a const type is a range when the class has const begin and end
RangeConcept(T) == T.kind # "int" /\ (T.c => T.constrange)

\* View<T>: a range that is an object type (no reference) with constant-time
\* copy; views and ref_view
ViewConcept(T) ==
    RangeConcept(T) /\ T.ref = "" /\ ~T.c /\ T.kind \in {"view", "ref_view"}

CommonRange(T) == RangeConcept(T) /\ T.common

SizedRange(T) == RangeConcept(T) /\ T.sized

RandomAccessRange(T) == RangeConcept(T) /\ T.strength = 3

\* ViewableRange<T>: a range that is an lvalue or whose decayed type is a view
ViewableRange(T) ==
    RangeConcept(T) /\ (T.ref = "&" \/ ViewConcept([T EXCEPT !.ref = ""]))

\* all_view<T>: decltype(view::all(std::declval<T>())), the decayed type for a
\* view and ref_view<X> for an lvalue X&
all_view(T) ==
    IF ViewConcept([T EXCEPT !.ref = ""]) THEN [T EXCEPT !.ref = ""]
    ELSE [T EXCEPT !.kind = "ref_view", !.ref = "", !.constrange = TRUE]

\* view::all(t)
view_all(t) == [ty |-> all_view(t.ty), data |-> t.data]

view_iterator_t(V) == [name |-> "iterator", of |-> V]

view_sentinel_t(V) ==
    IF V.common THEN view_iterator_t(V) ELSE [name |-> "sentinel", of |-> V]

common_iterator_t(I, S) == [name |-> "common_iterator", I |-> I, S |-> S]

\* ranges::begin(base), ranges::end(base), ranges::size(base) for a base
\* seen as type VV
ranges_begin(VV, base) == [ty |-> view_iterator_t(VV), at |-> 0]

ranges_end(VV, base) == [ty |-> view_sentinel_t(VV), at |-> Len(base.data)]

ranges_size(VV, base) == Len(base.data)

\* common_iterator<I, S>(x): holds the iterator or the sentinel x
common_iterator(I, S, x) == [ty |-> common_iterator_t(I, S), at |-> x.at]

random_and_sized_t(VV) == RandomAccessRange(VV) /\ SizedRange(VV)

do_begin(VV, base, tag) ==
    IF tag THEN ranges_begin(VV, base)
    ELSE common_iterator(view_iterator_t(VV), view_sentinel_t(VV),
                         ranges_begin(VV, base))

\* do_end wrapping the beginning of the base in both overloads
do_end_FromBegin(VV, base, tag) ==
    IF tag THEN ranges_begin(VV, base)
    ELSE common_iterator(view_iterator_t(VV), view_sentinel_t(VV),
                         ranges_begin(VV, base))

do_end(VV, base, tag) ==
    IF tag
        THEN [ranges_begin(VV, base) EXCEPT !.at = @ + ranges_size(VV, base)]
    ELSE common_iterator(view_iterator_t(VV), view_sentinel_t(VV),
                         ranges_end(VV, base))

\* V or const V
Qualified(V, const) == [V EXCEPT !.c = const]

\* common_view<V>::begin() and begin() const
common_view_begin(x, const) ==
    do_begin(Qualified(x.ty.V, const), x.base_,
             random_and_sized_t(Qualified(x.ty.V, const)))

\* common_view<V>::end() and end() const
common_view_end(x, const) ==
    do_end(Qualified(x.ty.V, const), x.base_,
           random_and_sized_t(Qualified(x.ty.V, const)))

common_view_t(V) == [kind |-> "common_view", V |-> V]

\* the outcome of an expression: whether it is well-formed (callable),
\* whether a static_assert failed while instantiating, and its value
Expression(callable, asserts, value) ==
    [callable |-> callable, asserts |-> asserts, value |-> value]

NoValue == [ty |-> [kind |-> "none"], data |-> <<>>]

\* common_view<V>{r}: instantiates the class, whose static_assert asks
\* View<V> && !CommonRange<V>
common_view_construct(V, r) ==
    IF ViewConcept(V) /\ ~CommonRange(V)
        THEN Expression(TRUE, TRUE, [ty |-> common_view_t(V), base_ |-> r])
    ELSE Expression(TRUE, FALSE, NoValue)

\* common_fn::impl(t, priority_tag<1>{}) without the CommonRange overload
common_fn_impl_WrapperOnly(T, t) ==
    common_view_construct(all_view(T), view_all(t))

\* common_fn::impl(t, priority_tag<1>{}): the overload for priority_tag<1>
\* when CommonRange<T>, else the one for priority_tag<0>
common_fn_impl(T, t) ==
    IF CommonRange(T) THEN Expression(TRUE, TRUE, view_all(t))
    ELSE common_view_construct(all_view(T), view_all(t))

\* view::common(t)
common_fn(T, t) ==
    IF ViewableRange(T) THEN common_fn_impl(T, t)
    ELSE Expression(FALSE, TRUE, NoValue)

NotCalled == [ty |-> [name |-> "none"], at |-> -1]

InitCommon ==
    /\ \E T \in ViewLayerTypes, n \in 0..MaxViewLen :
          arg = [T |-> T, t |-> [ty |-> T, data |-> [i \in 1..n |-> i]]]
    /\ call = "declare"
    /\ ret = NoRet

Traversal(out) ==
    [out |-> out, const |-> FALSE, b |-> NotCalled, e |-> NotCalled, it |-> NotCalled,
     steps |-> 0]

\* auto x = view::common(t);
Common ==
    /\ call = "declare"
    /\ "t" \in DOMAIN arg
    /\ ret' = Traversal(common_fn(arg.T, arg.t))
    /\ call' = "view::common"
    /\ UNCHANGED arg

\* common_view<V> x{t}; for an rvalue t of type V
Construct ==
    /\ call = "declare"
    /\ "t" \in DOMAIN arg
    /\ arg.T.ref = ""
    /\ RangeConcept(arg.T)
    /\ ret' = Traversal(common_view_construct(arg.T, arg.t))
    /\ call' = "common_view"
    /\ UNCHANGED arg

\* the program holds a common_view
HoldsCommonView ==
    /\ call \in {"view::common", "common_view"}
    /\ ret.out.callable
    /\ ret.out.asserts
    /\ ret.out.value.ty.kind = "common_view"

\* auto i = x.begin(); on x or on a const reference to x
Begin ==
    /\ HoldsCommonView
    /\ ret.b = NotCalled
    /\ \E const \in BOOLEAN :
          /\ const => RangeConcept(Qualified(ret.out.value.ty.V, TRUE))
          /\ LET b == common_view_begin(ret.out.value, const)
             IN ret' = [ret EXCEPT !.const = const, !.b = b, !.it = b]
    /\ UNCHANGED <<arg, call>>

\* auto e = x.end(); on the object begin() was called on
End ==
    /\ HoldsCommonView
    /\ ret.b # NotCalled
    /\ ret.e = NotCalled
    /\ ret' = [ret EXCEPT !.e = common_view_end(ret.out.value, ret.const)]
    /\ UNCHANGED <<arg, call>>

\* if (i != e) ++i;
Increment ==
    /\ HoldsCommonView
    /\ ret.e # NotCalled
    /\ ret.it.at # ret.e.at
    /\ ret.steps <= MaxViewLen
    /\ ret' = [ret EXCEPT !.it.at = @ + 1, !.steps = @ + 1]
    /\ UNCHANGED <<arg, call>>

NextCommon == Common \/ Construct \/ Begin \/ End \/ Increment

SpecCommon == InitCommon /\ [][NextCommon]_vars

\* the view the common_view was built over, seen as begin() and end() see it
BaseSeen == Qualified(ret.out.value.ty.V, ret.const)

====
